---- MODULE Spec2Model ----
(***************************************************************************)
(* A model of tt-core's file journal: the record line format               *)
(* (src/record.rs), the line cursor over a rope (src/journal/file/iter.rs) *)
(* and the file-backed store with its query resolver                       *)
(* (src/journal/file/mod.rs).                                              *)
(*                                                                         *)
(* Text is a sequence of one-character strings.  Option<T> is a sequence   *)
(* of length at most one: <<>> is None and <<v>> is Some(v).               *)
(***************************************************************************)
EXTENDS Integers, Sequences, FiniteSets, TLC

VARIABLES file, backup, call, iter, io

vars == <<file, backup, call, iter, io>>

None == <<>>

Some(v) == <<v>>

IsSome(o) == o # <<>>

Unwrap(o) == o[1]

(***************************************************************************)
(* Bounds of the model.                                                    *)
(***************************************************************************)
\* the largest number of lines a journal file is grown to
MaxLines == 3

(***************************************************************************)
(* Characters.                                                             *)
(***************************************************************************)
LF == "\n"

CR == "\r"

Digits == <<"0", "1", "2", "3", "4", "5", "6", "7", "8", "9">>

IsDigit(c) == \E d \in 1..10 : Digits[d] = c

DigitValue(c) == (CHOOSE d \in 1..10 : Digits[d] = c) - 1

\* the character classes of RECORD_REGEX: \s (among the characters the model
\* uses), [^,], [0-9], the note group's [^\n|^\r\n], and \n
InClass(class, c) ==
    CASE class = "space"    -> c \in {" ", "\t", LF, CR}
      [] class = "notcomma" -> c # ","
      [] class = "digit"    -> IsDigit(c)
      [] class = "note"     -> c \notin {LF, "|", "^", CR}
      [] class = "lf"       -> c = LF

\* the end of the longest run of characters of the class that starts at
\* index i of s (a greedy regex star): the index of the first character
\* after the run
RECURSIVE SkipWhile(_, _, _)
SkipWhile(s, i, class) ==
    IF i <= Len(s) /\ InClass(class, s[i]) THEN SkipWhile(s, i + 1, class) ELSE i

At(s, i, c) == i <= Len(s) /\ s[i] = c

(***************************************************************************)
(* Durations and timestamps.  A chrono Duration is a number of seconds; a  *)
(* DateTime<Local> is a second count with a nanosecond part, and the two   *)
(* timestamps of the model print as fixed 19-character texts.              *)
(***************************************************************************)
minutes(m) == 60 * m

num_minutes(d) == IF d >= 0 THEN d \div 60 ELSE -((-d) \div 60)

DateTime(sec) == [sec |-> sec, nano |-> 0]

\* "%Y-%m-%d %H:%M:%S" of the two timestamps
DateTimeText(sec) ==
    IF sec = 1
    THEN <<"2", "0", "1", "8", "-", "0", "8", "-", "1", "6", " ",
           "1", "3", ":", "5", "2", ":", "4", "3">>
    ELSE <<"2", "0", "1", "8", "-", "0", "8", "-", "1", "6", " ",
           "1", "5", ":", "4", "0", ":", "2", "5">>

DateTimes == {DateTime(1), DateTime(2)}

format_datetime(dt) == DateTimeText(dt.sec)

datetime_from_str(s) ==
    IF \E dt \in DateTimes : DateTimeText(dt.sec) = s
    THEN Some(CHOOSE dt \in DateTimes : DateTimeText(dt.sec) = s)
    ELSE None

RECURSIVE NatToChars(_)
NatToChars(n) ==
    IF n < 10 THEN <<Digits[n + 1]>>
    ELSE NatToChars(n \div 10) \o <<Digits[(n % 10) + 1]>>

IntToChars(i) == IF i < 0 THEN <<"-">> \o NatToChars(-i) ELSE NatToChars(i)

RECURSIVE CharsToNat(_)
CharsToNat(s) ==
    IF Len(s) = 0 THEN 0
    ELSE 10 * CharsToNat(SubSeq(s, 1, Len(s) - 1)) + DigitValue(s[Len(s)])

\* str::parse::<i64>: an optional sign and at least one digit
parse_i64(s) ==
    LET neg == At(s, 1, "-")
        ds  == IF neg THEN Tail(s) ELSE s
    IN  IF Len(ds) > 0 /\ \A k \in 1..Len(ds) : IsDigit(ds[k])
        THEN Some(IF neg THEN -CharsToNat(ds) ELSE CharsToNat(ds))
        ELSE None

(***************************************************************************)
(* Record: its text form and the parser.                                   *)
(***************************************************************************)
Record(start, activity, rest, note) ==
    [start |-> start, activity |-> activity, rest |-> rest, note |-> note]

\* impl ToString for Record
to_string(r) ==
    LET rest   == IF IsSome(r.rest)
                  THEN <<" ", "(">> \o IntToChars(num_minutes(Unwrap(r.rest))) \o <<")">>
                  ELSE <<>>
        timing == IF IsSome(r.activity)
                  THEN IntToChars(num_minutes(Unwrap(r.activity))) \o rest
                  ELSE rest
        start  == IF IsSome(r.start) THEN format_datetime(Unwrap(r.start)) ELSE <<>>
        line   == <<"[">> \o start \o <<",", " ">> \o timing \o <<"]">>
    IN  IF r.note # <<>> THEN line \o <<" ">> \o r.note ELSE line

\* RECORD_REGEX.captures: the groups of the one way the regex can match s,
\* or None.  Every star of the regex is greedy and followed by a character
\* outside its class, so the match is found left to right.
RECORD_REGEX(s) ==
    LET n    == Len(s)
        i1   == SkipWhile(s, 2, "space")
        i2   == SkipWhile(s, i1, "notcomma")
        i3   == SkipWhile(s, i2 + 1, "space")
        i4   == SkipWhile(s, i3, "digit")
        i5   == SkipWhile(s, i4, "space")
        grp  == At(s, i5, "(")
        j1   == SkipWhile(s, i5 + 1, "space")
        j2   == IF At(s, j1, "-") THEN j1 + 1 ELSE j1
        j3   == SkipWhile(s, j2, "digit")
        j4   == SkipWhile(s, j3, "space")
        i6   == IF grp THEN j4 + 1 ELSE i5
        i7   == SkipWhile(s, i6, "space")
        i8   == SkipWhile(s, i7 + 1, "space")
        i9   == SkipWhile(s, i8, "note")
        i10  == IF At(s, i9, CR) THEN i9 + 1 ELSE i9
        i11  == SkipWhile(s, i10, "lf")
    IN  IF /\ At(s, 1, "[")
           /\ At(s, i2, ",")
           /\ (grp => At(s, j4, ")"))
           /\ At(s, i7, "]")
           /\ i11 = n + 1
        THEN Some([start    |-> SubSeq(s, i1, i2 - 1),
                   activity |-> SubSeq(s, i3, i4 - 1),
                   rest     |-> IF grp THEN Some(SubSeq(s, j1, j3 - 1)) ELSE None,
                   note     |-> SubSeq(s, i8, i9 - 1)])
        ELSE None

OptMinutes(o) == IF IsSome(o) THEN Some(minutes(Unwrap(o))) ELSE None

\* impl FromStr for Record: Some(record), or None for the parse error
from_str(source) ==
    LET captured(caps) ==
            IF IsSome(caps)
            THEN Some(Record(datetime_from_str(Unwrap(caps).start),
                             OptMinutes(parse_i64(Unwrap(caps).activity)),
                             IF IsSome(Unwrap(caps).rest)
                             THEN OptMinutes(parse_i64(Unwrap(Unwrap(caps).rest)))
                             ELSE None,
                             Unwrap(caps).note))
            ELSE None
    IN  captured(RECORD_REGEX(source))

(***************************************************************************)
(* The rope (ropey::Rope), as far as the cursor uses it: the text together *)
(* with the index of its lines, which ropey keeps up to date.  A line      *)
(* break is LF, CR LF or a lone CR; the text after the last break is the   *)
(* last line, which may be empty.  Character offsets and line indices      *)
(* start at 0.                                                             *)
(***************************************************************************)
\* the (1-based) indices, from i on, of the characters that end a line
\* break, in order
RECURSIVE BreakEnds(_, _)
BreakEnds(text, i) ==
    IF i > Len(text) THEN <<>>
    ELSE IF text[i] = LF \/ (text[i] = CR /\ ~At(text, i + 1, LF))
    THEN <<i>> \o BreakEnds(text, i + 1)
    ELSE BreakEnds(text, i + 1)

\* Rope::from_reader: starts holds the character offset of each line's start
Rope(text) == [text |-> text, starts |-> <<0>> \o BreakEnds(text, 1)]

\* Rope::len_lines
len_lines(rope) == Len(rope.starts)

\* Rope::line_to_char, defined for line_idx <= len_lines as in ropey
line_to_char(rope, line_idx) ==
    IF line_idx = Len(rope.starts) THEN Len(rope.text)
    ELSE rope.starts[line_idx + 1]

\* Rope::line: the line with its terminator
line(rope, line_idx) ==
    SubSeq(rope.text, line_to_char(rope, line_idx) + 1,
           line_to_char(rope, line_idx + 1))

\* a remove that also takes the character after the range
rope_remove_one_more(rope, start_idx, end_idx) ==
    Rope(SubSeq(rope.text, 1, start_idx)
         \o SubSeq(rope.text, end_idx + 2, Len(rope.text)))

\* Rope::remove(start..end)
rope_remove(rope, start_idx, end_idx) ==
    Rope(SubSeq(rope.text, 1, start_idx)
         \o SubSeq(rope.text, end_idx + 1, Len(rope.text)))

\* Rope::insert
rope_insert(rope, char_idx, text) ==
    Rope(SubSeq(rope.text, 1, char_idx) \o text
         \o SubSeq(rope.text, char_idx + 1, Len(rope.text)))

\* Rope::write_to
write_to(rope) == rope.text

(***************************************************************************)
(* Item and Iter, the line cursor.                                         *)
(***************************************************************************)
DefaultRecord == Record(None, None, None, <<>>)

ItemRecord(r) == [kind |-> "Record", record |-> r, text |-> <<>>]

SomeLine(s) == [kind |-> "SomeLine", record |-> DefaultRecord, text |-> s]

\* Item::into_record
into_record(item) == IF item.kind = "Record" THEN Some(item.record) ELSE None

\* Option<Item>::and_then(|item| item.into_record())
and_then_into_record(got) == IF IsSome(got) THEN into_record(Unwrap(got)) ELSE None

\* impl ToString for Item
item_to_string(item) ==
    IF item.kind = "Record" THEN to_string(item.record) ELSE item.text

\* a trim that leaves the line break on the text
keep_line_break(s) == s

\* str::trim_right_matches('\n')
RECURSIVE trim_right_matches(_)
trim_right_matches(s) ==
    IF Len(s) > 0 /\ s[Len(s)] = LF
    THEN trim_right_matches(SubSeq(s, 1, Len(s) - 1))
    ELSE s

\* Iter::new
Iter(rope, cur_line_idx) == [rope |-> rope, cur_line_idx |-> cur_line_idx]

\* the characters a rope keeps in one chunk, scaled; a loaded text fills
\* its chunks in order
ChunkChars == 64

\* RopeSlice::as_str on a line: the text when the line lies in one chunk,
\* None when it spans chunks
as_str(rope, line_idx) ==
    LET spans(first, end) ==
            first < end /\ first \div ChunkChars # (end - 1) \div ChunkChars
    IN  IF spans(line_to_char(rope, line_idx), line_to_char(rope, line_idx + 1))
        THEN None
        ELSE Some(line(rope, line_idx))

\* Iter::lines_count: as_str().map(str::is_empty).unwrap_or(true)
lines_count(it) ==
    LET count == len_lines(it.rope)
        is_empty_or_none(s) == IF IsSome(s) THEN Unwrap(s) = <<>> ELSE TRUE
    IN  IF count > 0 /\ is_empty_or_none(as_str(it.rope, count - 1))
        THEN count - 1
        ELSE count

\* Iter::get
iter_get(it) ==
    IF IsSome(it.cur_line_idx) /\ Unwrap(it.cur_line_idx) < lines_count(it)
    THEN LET item(text, rec) ==
                 IF IsSome(rec) THEN ItemRecord(Unwrap(rec))
                 ELSE SomeLine(trim_right_matches(text))
             parsed(text) == item(text, from_str(text))
         IN  Some(parsed(line(it.rope, Unwrap(it.cur_line_idx))))
    ELSE None

\* usize, scaled to UsizeBits bits
UsizeBits == 4

UsizeMax == 2 ^ UsizeBits - 1

\* a + b on usize without overflow checks
wrapping_add(a, b) == (a + b) % (UsizeMax + 1)

\* a + b on usize overflows; with overflow checks the addition panics
add_overflows(a, b) == a + b > UsizeMax

\* i32, scaled to I32Bits bits
I32Bits == 4

I32Min == -(2 ^ (I32Bits - 1))

I32Max == 2 ^ (I32Bits - 1) - 1

\* -x on i32 without overflow checks: -I32Min wraps to I32Min
wrapping_neg(x) == IF x = I32Min THEN I32Min ELSE -x

\* -x on i32 overflows; with overflow checks the negation panics
neg_overflows(x) == x = I32Min

\* x as usize: a negative i32 is sign-extended
as_usize(x) == IF x < 0 THEN x + UsizeMax + 1 ELSE x

\* forward that counts from line 0 when the position is None
forward_from_line_0(it, n) ==
    IF n > 0
    THEN LET to_line_idx == IF IsSome(it.cur_line_idx)
                            THEN wrapping_add(Unwrap(it.cur_line_idx), n)
                            ELSE n
             count       == lines_count(it)
         IN  [it EXCEPT !.cur_line_idx =
                 Some(IF to_line_idx < count THEN to_line_idx ELSE count)]
    ELSE it

\* forward that does not clamp the target to lines_count
forward_unclamped(it, n) ==
    IF n > 0
    THEN [it EXCEPT !.cur_line_idx =
             Some(IF IsSome(it.cur_line_idx)
                  THEN wrapping_add(Unwrap(it.cur_line_idx), n)
                  ELSE n - 1)]
    ELSE it

\* Iter::forward, as built without overflow checks
forward(it, n) ==
    IF n > 0
    THEN LET to_line_idx == IF IsSome(it.cur_line_idx)
                            THEN wrapping_add(Unwrap(it.cur_line_idx), n)
                            ELSE n - 1
             count       == lines_count(it)
         IN  [it EXCEPT !.cur_line_idx =
                 Some(IF to_line_idx < count THEN to_line_idx ELSE count)]
    ELSE it

\* forward panics: idx + n overflows in a build with overflow checks
forward_panics(it, n) ==
    n > 0 /\ IsSome(it.cur_line_idx) /\ add_overflows(Unwrap(it.cur_line_idx), n)

\* backward that stops on the first line instead of before it
backward_saturating(it, n) ==
    IF IsSome(it.cur_line_idx)
    THEN [it EXCEPT !.cur_line_idx =
             Some(IF Unwrap(it.cur_line_idx) < n THEN 0
                  ELSE Unwrap(it.cur_line_idx) - n)]
    ELSE it

\* Iter::backward
backward(it, n) ==
    IF IsSome(it.cur_line_idx)
    THEN [it EXCEPT !.cur_line_idx =
             IF Unwrap(it.cur_line_idx) < n THEN None
             ELSE Some(Unwrap(it.cur_line_idx) - n)]
    ELSE it

\* Iter::go_to_start
go_to_start(it) == [it EXCEPT !.cur_line_idx = None]

\* go_to_end that stops on the last line instead of after it
go_to_end_on_last_line(it) ==
    LET count == lines_count(it)
    IN  [it EXCEPT !.cur_line_idx = IF count > 0 THEN Some(count - 1) ELSE None]

\* Iter::go_to_end
go_to_end(it) ==
    LET count == lines_count(it)
    IN  [it EXCEPT !.cur_line_idx = IF count > 0 THEN Some(count) ELSE None]

\* next that yields the following line and leaves the cursor where it was
next_without_moving(it) ==
    [iter |-> it, item |-> iter_get(forward(it, 1))]

\* impl Iterator for Iter: the cursor after the step and the item it yields
next(it) ==
    LET moved == forward(it, 1)
    IN  [iter |-> moved, item |-> iter_get(moved)]

\* remove that leaves the last character of the line's terminator
iter_remove_keeping_newline(it) ==
    IF IsSome(it.cur_line_idx)
    THEN LET cur_line_idx == Unwrap(it.cur_line_idx)
             start_idx    == line_to_char(it.rope, cur_line_idx)
         IN  [iter |-> IF cur_line_idx + 1 <= len_lines(it.rope)
                       THEN [it EXCEPT !.rope =
                                rope_remove(it.rope, start_idx,
                                            line_to_char(it.rope, cur_line_idx + 1) - 1)]
                       ELSE it,
              ret  |-> Some(start_idx)]
    ELSE [iter |-> it, ret |-> None]

\* remove that steps back to the line before the removed one
iter_remove_moving_back(it) ==
    IF IsSome(it.cur_line_idx)
    THEN LET cur_line_idx == Unwrap(it.cur_line_idx)
             start_idx    == line_to_char(it.rope, cur_line_idx)
         IN  [iter |-> IF cur_line_idx + 1 <= len_lines(it.rope)
                       THEN [it EXCEPT !.rope =
                                rope_remove(it.rope, start_idx,
                                            line_to_char(it.rope, cur_line_idx + 1)),
                                       !.cur_line_idx =
                                           IF cur_line_idx > 0
                                           THEN Some(cur_line_idx - 1) ELSE None]
                       ELSE it,
              ret  |-> Some(start_idx)]
    ELSE [iter |-> it, ret |-> None]

\* Iter::remove: the cursor after the call and the returned offset
iter_remove(it) ==
    IF IsSome(it.cur_line_idx)
    THEN LET cur_line_idx == Unwrap(it.cur_line_idx)
             start_idx    == line_to_char(it.rope, cur_line_idx)
         IN  [iter |-> IF cur_line_idx + 1 <= len_lines(it.rope)
                       THEN [it EXCEPT !.rope =
                                rope_remove(it.rope, start_idx,
                                            line_to_char(it.rope, cur_line_idx + 1))]
                       ELSE it,
              ret  |-> Some(start_idx)]
    ELSE [iter |-> it, ret |-> None]

\* update that inserts the item without a newline after it
iter_update_without_newline(it, item) ==
    LET removed == iter_remove(it)
    IN  IF IsSome(removed.ret)
        THEN [iter |-> [removed.iter EXCEPT !.rope =
                           rope_insert(removed.iter.rope, Unwrap(removed.ret),
                                       item_to_string(item))],
              ret  |-> removed.ret]
        ELSE [iter |-> it, ret |-> None]

\* Iter::update
iter_update(it, item) ==
    LET removed == iter_remove(it)
    IN  IF IsSome(removed.ret)
        THEN [iter |-> [removed.iter EXCEPT !.rope =
                           rope_insert(removed.iter.rope, Unwrap(removed.ret),
                                       item_to_string(item) \o <<LF>>)],
              ret  |-> removed.ret]
        ELSE [iter |-> it, ret |-> None]

(***************************************************************************)
(* The query resolver.                                                     *)
(***************************************************************************)
\* the variants of RecordFieldType
Start(x) == [type |-> "Start", value |-> x]

Activity(x) == [type |-> "Activity", value |-> x]

Rest(x) == [type |-> "Rest", value |-> x]

Note(x) == [type |-> "Note", value |-> x]

\* a field loop that does not compare notes
field_matches_ignoring_note(field, record) ==
    CASE field.type = "Start"    -> field.value = record.start
      [] field.type = "Activity" -> field.value = record.activity
      [] field.type = "Rest"     -> field.value = record.rest
      [] field.type = "Note"     -> TRUE

\* the match arm of iter_to_record's field loop
field_matches(field, record) ==
    CASE field.type = "Start"    -> field.value = record.start
      [] field.type = "Activity" -> field.value = record.activity
      [] field.type = "Rest"     -> field.value = record.rest
      [] field.type = "Note"     -> field.value = record.note

\* an absent offset taken as 1
unwrap_or_1(offset) == IF IsSome(offset) THEN Unwrap(offset) ELSE 1

\* Option<i32>::unwrap_or(0)
unwrap_or_0(offset) == IF IsSome(offset) THEN Unwrap(offset) ELSE 0

\* the 'next_record loop with first_record cleared by every line that is not
\* the match, opaque lines included
RECURSIVE next_record_clearing_on_opaque(_, _, _)
next_record_clearing_on_opaque(it, query, first_record) ==
    LET while_let(step) ==
            IF IsSome(step.item)
            THEN IF Unwrap(step.item).kind = "Record"
                    /\ \A i \in 1..Len(query) :
                           field_matches(query[i], Unwrap(step.item).record)
                 THEN [iter |-> step.iter,
                       record |-> Some(Unwrap(step.item).record),
                       first_record |-> first_record]
                 ELSE next_record_clearing_on_opaque(step.iter, query, FALSE)
            ELSE [iter |-> step.iter, record |-> None, first_record |-> first_record]
    IN  while_let(next(it))

\* the 'next_record loop of iter_to_record: the cursor where the loop ends,
\* the matching record if one was found, and first_record at that point
RECURSIVE next_record(_, _, _)
next_record(it, query, first_record) ==
    LET while_let(step) ==
            IF IsSome(step.item)
            THEN IF Unwrap(step.item).kind = "Record"
                 THEN IF \A i \in 1..Len(query) :
                             field_matches(query[i], Unwrap(step.item).record)
                      THEN [iter |-> step.iter,
                            record |-> Some(Unwrap(step.item).record),
                            first_record |-> first_record]
                      ELSE next_record(step.iter, query, FALSE)
                 ELSE next_record(step.iter, query, first_record)
            ELSE [iter |-> step.iter, record |-> None, first_record |-> first_record]
    IN  while_let(next(it))

\* iter_to_record that counts a positive offset from the start of the journal
\* instead of from the match
iter_to_record_forward_from_start(it, query, offset) ==
    LET off == unwrap_or_0(offset)
        matched(found) ==
            IF IsSome(found.record)
            THEN LET at == IF off = 0 THEN found.iter
                           ELSE IF off > 0 THEN forward(go_to_start(found.iter), off)
                           ELSE backward(IF found.first_record
                                         THEN go_to_end(found.iter)
                                         ELSE found.iter,
                                         -off)
                 IN  [iter   |-> at,
                      record |-> IF off = 0 THEN found.record
                                 ELSE and_then_into_record(iter_get(at)),
                      anchor |-> found.iter.cur_line_idx]
            ELSE [iter |-> found.iter, record |-> None, anchor |-> None]
    IN  matched(next_record(it, query, TRUE))

\* iter_to_record that counts every negative offset from the end of the
\* journal, whatever first_record says
iter_to_record_always_from_end(it, query, offset) ==
    LET off == unwrap_or_0(offset)
        matched(found) ==
            IF IsSome(found.record)
            THEN LET at == IF off = 0 THEN found.iter
                           ELSE IF off > 0 THEN forward(found.iter, off)
                           ELSE backward(go_to_end(found.iter), -off)
                 IN  [iter   |-> at,
                      record |-> IF off = 0 THEN found.record
                                 ELSE and_then_into_record(iter_get(at)),
                      anchor |-> found.iter.cur_line_idx]
            ELSE [iter |-> found.iter, record |-> None, anchor |-> None]
    IN  matched(next_record(it, query, TRUE))

\* iter_to_record, as built without overflow checks: the cursor it leaves and
\* the record it returns; anchor is the line of the match the loop stopped at
iter_to_record(it, query, offset) ==
    LET off == unwrap_or_0(offset)
        matched(found) ==
            IF IsSome(found.record)
            THEN LET at == IF off = 0 THEN found.iter
                           ELSE IF off > 0 THEN forward(found.iter, off)
                           ELSE backward(IF found.first_record
                                         THEN go_to_end(found.iter)
                                         ELSE found.iter,
                                         as_usize(wrapping_neg(off)))
                 IN  [iter   |-> at,
                      record |-> IF off = 0 THEN found.record
                                 ELSE and_then_into_record(iter_get(at)),
                      anchor |-> found.iter.cur_line_idx]
            ELSE [iter |-> found.iter, record |-> None, anchor |-> None]
    IN  matched(next_record(it, query, TRUE))

\* iter_to_record panics: a match is found and -offset overflows in a build
\* with overflow checks
iter_to_record_panics(it, query, offset) ==
    /\ neg_overflows(unwrap_or_0(offset))
    /\ IsSome(next_record(it, query, TRUE).record)

(***************************************************************************)
(* The store.  fs is the directory of the journal: the journal file and    *)
(* its backup "<path>.tt_back", each None when absent.                     *)
(***************************************************************************)
Ok(v) == [ok |-> TRUE, val |-> v]

Err == [ok |-> FALSE, val |-> "io"]

Unit == <<>>

\* a byte no UTF-8 text holds
InvalidByte == "FF"

\* Rope::from_reader: fails on bytes that are not UTF-8
from_reader(bytes) ==
    IF \E k \in 1..Len(bytes) : bytes[k] = InvalidByte THEN Err ELSE Ok(Rope(bytes))

\* try_iter that takes a journal it cannot load for an empty one
try_iter_empty_on_failure(fs) ==
    IF IsSome(fs.file) /\ from_reader(Unwrap(fs.file)).ok
    THEN Ok(Iter(from_reader(Unwrap(fs.file)).val, None))
    ELSE Ok(Iter(Rope(<<>>), None))

\* FileJournal::try_iter: open(&self.path)?, Rope::from_reader(..)?
try_iter(fs) ==
    IF IsSome(fs.file) /\ from_reader(Unwrap(fs.file)).ok
    THEN Ok(Iter(from_reader(Unwrap(fs.file)).val, None))
    ELSE Err

\* Iter::flush without I/O faults: copy to the backup, truncate, write the
\* rope, remove the backup
flush(it, fs) ==
    IF IsSome(fs.file)
    THEN LET copied    == [fs EXCEPT !.backup = fs.file]
             truncated == [copied EXCEPT !.file = Some(<<>>)]
             written   == [truncated EXCEPT !.file = Some(write_to(it.rope))]
             removed   == [written EXCEPT !.backup = None]
         IN  [fs |-> removed, result |-> Ok(Unit)]
    ELSE [fs |-> fs, result |-> Err]

\* the closures a caller passes to update
NoFn == [kind |-> "none", record |-> DefaultRecord]

Decline == [kind |-> "decline", record |-> DefaultRecord]

Replace(r) == [kind |-> "replace", record |-> r]

call_update_fn(f, record) ==
    CASE f.kind = "decline" -> None
      [] f.kind = "replace" -> Some(f.record)

\* the closures a caller passes to remove
Confirm == [kind |-> "confirm", record |-> DefaultRecord]

Refuse == [kind |-> "refuse", record |-> DefaultRecord]

call_remove_fn(f, record) == f.kind = "confirm"

\* add that writes the newline before the record instead of after it
add_with_newline_first(fs, record) ==
    [fs     |-> [fs EXCEPT !.file =
                    Some((IF IsSome(fs.file) THEN Unwrap(fs.file) ELSE <<>>)
                         \o <<LF>> \o to_string(record))],
     result |-> Ok(Unit)]

\* add that writes the record without a newline after it
add_without_newline(fs, record) ==
    [fs     |-> [fs EXCEPT !.file =
                    Some((IF IsSome(fs.file) THEN Unwrap(fs.file) ELSE <<>>)
                         \o to_string(record))],
     result |-> Ok(Unit)]

\* FileJournal::add
add(fs, record) ==
    [fs     |-> [fs EXCEPT !.file =
                    Some((IF IsSome(fs.file) THEN Unwrap(fs.file) ELSE <<>>)
                         \o to_string(record) \o <<LF>>)],
     result |-> Ok(Unit)]

\* get that opens the journal as add does, creating it when it is absent
get_creating_file(fs, query, offset) ==
    LET created == [fs EXCEPT !.file = IF IsSome(fs.file) THEN fs.file ELSE Some(<<>>)]
        resolved(found) ==
            [fs |-> created, result |-> Ok(found.record),
             found |-> found.record, f_arg |-> None, flushed |-> FALSE,
             cur |-> found.iter.cur_line_idx, anchor |-> found.anchor]
    IN  resolved(iter_to_record(try_iter(created).val, query, offset))

\* FileJournal::get
get(fs, query, offset) ==
    LET opened == try_iter(fs)
    IN  IF opened.ok
        THEN LET resolved(found) ==
                     [fs |-> fs, result |-> Ok(found.record),
                      found |-> found.record, f_arg |-> None, flushed |-> FALSE,
                      cur |-> found.iter.cur_line_idx, anchor |-> found.anchor]
             IN  resolved(iter_to_record(opened.val, query, offset))
        ELSE [fs |-> fs, result |-> Err, found |-> None, f_arg |-> None,
              flushed |-> FALSE, cur |-> None, anchor |-> None]

\* update that flushes whether or not the record was replaced
update_always_flushing(fs, query, offset, f) ==
    LET opened == try_iter(fs)
    IN  IF opened.ok
        THEN LET resolved(found) ==
                     LET new     == IF IsSome(found.record)
                                    THEN call_update_fn(f, Unwrap(found.record))
                                    ELSE None
                         changed == IF IsSome(new)
                                    THEN iter_update(found.iter, ItemRecord(Unwrap(new)))
                                    ELSE [iter |-> found.iter, ret |-> None]
                         flushing == flush(changed.iter, fs)
                     IN  [fs      |-> flushing.fs,
                          result  |-> IF ~flushing.result.ok THEN Err
                                      ELSE Ok(IsSome(changed.ret)),
                          found   |-> found.record,
                          f_arg   |-> found.record,
                          flushed |-> TRUE,
                          cur     |-> found.iter.cur_line_idx,
                          anchor  |-> found.anchor]
             IN  resolved(iter_to_record(opened.val, query, offset))
        ELSE [fs |-> fs, result |-> Err, found |-> None, f_arg |-> None,
              flushed |-> FALSE, cur |-> None, anchor |-> None]

\* FileJournal::update.  Beside the directory it leaves and the result, the
\* model records what the resolver returned (found), the record f was called
\* with if it was called (f_arg), whether flush ran, and where the resolver
\* left the cursor (cur).
update(fs, query, offset, f) ==
    LET opened == try_iter(fs)
    IN  IF opened.ok
        THEN LET resolved(found) ==
                     LET new     == IF IsSome(found.record)
                                    THEN call_update_fn(f, Unwrap(found.record))
                                    ELSE None
                         changed == IF IsSome(new)
                                    THEN iter_update(found.iter, ItemRecord(Unwrap(new)))
                                    ELSE [iter |-> found.iter, ret |-> None]
                         updated == IsSome(changed.ret)
                         flushing == flush(changed.iter, fs)
                     IN  [fs      |-> IF updated THEN flushing.fs ELSE fs,
                          result  |-> IF updated /\ ~flushing.result.ok THEN Err
                                      ELSE Ok(updated),
                          found   |-> found.record,
                          f_arg   |-> found.record,
                          flushed |-> updated,
                          cur     |-> found.iter.cur_line_idx,
                          anchor  |-> found.anchor]
             IN  resolved(iter_to_record(opened.val, query, offset))
        ELSE [fs |-> fs, result |-> Err, found |-> None, f_arg |-> None,
              flushed |-> FALSE, cur |-> None, anchor |-> None]

\* remove that passes the resolved record to f and then deletes the line of
\* the match instead of the line the offset led to
remove_at_anchor(fs, query, offset, f) ==
    LET opened == try_iter(fs)
    IN  IF opened.ok
        THEN LET resolved(found) ==
                     LET changed == IF IsSome(found.record)
                                       /\ call_remove_fn(f, Unwrap(found.record))
                                    THEN iter_remove([found.iter EXCEPT
                                                         !.cur_line_idx = found.anchor])
                                    ELSE [iter |-> found.iter, ret |-> None]
                         removed == IsSome(changed.ret)
                         flushing == flush(changed.iter, fs)
                     IN  [fs      |-> IF removed THEN flushing.fs ELSE fs,
                          result  |-> IF removed /\ ~flushing.result.ok THEN Err
                                      ELSE Ok(removed),
                          found   |-> found.record,
                          f_arg   |-> found.record,
                          flushed |-> removed,
                          cur     |-> found.iter.cur_line_idx,
                          anchor  |-> found.anchor]
             IN  resolved(iter_to_record(opened.val, query, offset))
        ELSE [fs |-> fs, result |-> Err, found |-> None, f_arg |-> None,
              flushed |-> FALSE, cur |-> None, anchor |-> None]

\* remove that calls f and removes the record whatever f answers
remove_ignoring_answer(fs, query, offset, f) ==
    LET opened == try_iter(fs)
    IN  IF opened.ok
        THEN LET resolved(found) ==
                     LET changed == IF IsSome(found.record) THEN iter_remove(found.iter)
                                    ELSE [iter |-> found.iter, ret |-> None]
                         removed == IsSome(changed.ret)
                         flushing == flush(changed.iter, fs)
                     IN  [fs      |-> IF removed THEN flushing.fs ELSE fs,
                          result  |-> IF removed /\ ~flushing.result.ok THEN Err
                                      ELSE Ok(removed),
                          found   |-> found.record,
                          f_arg   |-> found.record,
                          flushed |-> removed,
                          cur     |-> found.iter.cur_line_idx,
                          anchor  |-> found.anchor]
             IN  resolved(iter_to_record(opened.val, query, offset))
        ELSE [fs |-> fs, result |-> Err, found |-> None, f_arg |-> None,
              flushed |-> FALSE, cur |-> None, anchor |-> None]

\* FileJournal::remove
remove(fs, query, offset, f) ==
    LET opened == try_iter(fs)
    IN  IF opened.ok
        THEN LET resolved(found) ==
                     LET agreed  == IsSome(found.record)
                                    /\ call_remove_fn(f, Unwrap(found.record))
                         changed == IF agreed THEN iter_remove(found.iter)
                                    ELSE [iter |-> found.iter, ret |-> None]
                         removed == IsSome(changed.ret)
                         flushing == flush(changed.iter, fs)
                     IN  [fs      |-> IF removed THEN flushing.fs ELSE fs,
                          result  |-> IF removed /\ ~flushing.result.ok THEN Err
                                      ELSE Ok(removed),
                          found   |-> found.record,
                          f_arg   |-> found.record,
                          flushed |-> removed,
                          cur     |-> found.iter.cur_line_idx,
                          anchor  |-> found.anchor]
             IN  resolved(iter_to_record(opened.val, query, offset))
        ELSE [fs |-> fs, result |-> Err, found |-> None, f_arg |-> None,
              flushed |-> FALSE, cur |-> None, anchor |-> None]

(***************************************************************************)
(* The inputs of the model.                                                *)
(***************************************************************************)
RecA == Record(None, Some(minutes(1)), None, <<"a">>)

RecB == Record(None, Some(minutes(2)), Some(minutes(-1)), <<"b">>)

\* the records callers add and the records update closures produce
Records == {RecA, RecB}

\* a record line that is not in the form to_string writes, carrying the CR
\* of a CR LF terminator
LooseLine == <<"[", ",", "(", ")", "]", CR>>

OpaqueLine == <<"x">>

EmptyLine == <<>>

\* the line texts journal files are made of initially
LineTexts == {to_string(RecA), to_string(RecB), LooseLine, OpaqueLine, EmptyLine}

RECURSIVE Join(_, _)
Join(ls, last) ==
    IF Len(ls) = 0 THEN <<>>
    ELSE IF Len(ls) = 1 THEN ls[1] \o last
    ELSE ls[1] \o <<LF>> \o Join(Tail(ls), last)

\* journal contents: up to MaxLines lines, each ended by LF (CR LF for the
\* loose line), the last line with or without its terminator
Contents ==
    {Join(ls, last) :
        <<ls, last>> \in {p \in (UNION {[1..n -> LineTexts] : n \in 0..MaxLines})
                                    \X {<<>>, <<LF>>} :
                              /\ Len(p[1]) = 0 => p[2] = <<>>
                              /\ (Len(p[1]) > 0 /\ p[1][Len(p[1])] = LooseLine)
                                     => p[2] = <<LF>>}}

\* the empty query; one only RecB satisfies; one only the loose line
\* satisfies, which RecA fails on its second field
Queries ==
    {<<>>,
     <<Start(None), Activity(Some(minutes(2))), Note(<<"b">>)>>,
     <<Rest(None), Note(<<>>)>>}

\* offsets that reach past either end of every journal of the model
SomeOffsets == {Some(k) : k \in (-(MaxLines + 1))..(MaxLines + 1)}

Offsets == {None} \cup SomeOffsets

UpdateFns == {Decline, Replace(RecB)}

RemoveFns == {Confirm, Refuse}

(***************************************************************************)
(* The state machine: one action per call of the Journal trait, which runs *)
(* the whole call.  call records the call that has just run (its           *)
(* arguments, the directory before it, what it returned) until it returns. *)
(***************************************************************************)
Fs == [file |-> file, backup |-> backup]

NoCall ==
    [op |-> "none", query |-> <<>>, offset |-> None, f |-> NoFn,
     record |-> DefaultRecord, pre |-> [file |-> None, backup |-> None],
     result |-> Ok(Unit), found |-> None, f_arg |-> None, flushed |-> FALSE,
     cur |-> None, anchor |-> None]

\* no flush in progress
NoFlush ==
    [pc |-> "idle", text |-> <<>>, old |-> None, pos |-> 0, error |-> None,
     failed |-> {}]

\* the cursor of the cursor-level specification; the store's calls build
\* their own
NoIter == Iter(Rope(<<>>), None)

Init ==
    /\ file \in {None} \cup {Some(c) : c \in Contents}
    /\ backup = None
    /\ call = NoCall
    /\ iter = NoIter
    /\ io = NoFlush

Add ==
    /\ call.op = "none"
    /\ \E record \in Records :
           \E done \in {add(Fs, record)} :
               /\ IsSome(file) => lines_count(Iter(Rope(Unwrap(file)), None)) < MaxLines
               /\ file' = done.fs.file
               /\ backup' = done.fs.backup
               /\ call' = [NoCall EXCEPT !.op = "add", !.record = record, !.pre = Fs,
                                         !.result = done.result]
               /\ UNCHANGED <<iter, io>>

Get ==
    /\ call.op = "none"
    /\ \E query \in Queries, offset \in Offsets :
           \E done \in {get(Fs, query, offset)} :
               /\ file' = done.fs.file
               /\ backup' = done.fs.backup
               /\ call' = [NoCall EXCEPT !.op = "get", !.query = query,
                                         !.offset = offset, !.pre = Fs,
                                         !.result = done.result, !.found = done.found,
                                         !.f_arg = done.f_arg,
                                         !.flushed = done.flushed, !.cur = done.cur,
                                         !.anchor = done.anchor]
               /\ UNCHANGED <<iter, io>>

Update ==
    /\ call.op = "none"
    /\ \E query \in Queries, offset \in SomeOffsets, f \in UpdateFns :
           \E done \in {update(Fs, query, offset, f)} :
               /\ file' = done.fs.file
               /\ backup' = done.fs.backup
               /\ call' = [NoCall EXCEPT !.op = "update", !.query = query,
                                         !.offset = offset, !.f = f, !.pre = Fs,
                                         !.result = done.result, !.found = done.found,
                                         !.f_arg = done.f_arg,
                                         !.flushed = done.flushed, !.cur = done.cur,
                                         !.anchor = done.anchor]
               /\ UNCHANGED <<iter, io>>

Remove ==
    /\ call.op = "none"
    /\ \E query \in Queries, offset \in SomeOffsets, f \in RemoveFns :
           \E done \in {remove(Fs, query, offset, f)} :
               /\ file' = done.fs.file
               /\ backup' = done.fs.backup
               /\ call' = [NoCall EXCEPT !.op = "remove", !.query = query,
                                         !.offset = offset, !.f = f, !.pre = Fs,
                                         !.result = done.result, !.found = done.found,
                                         !.f_arg = done.f_arg,
                                         !.flushed = done.flushed, !.cur = done.cur,
                                         !.anchor = done.anchor]
               /\ UNCHANGED <<iter, io>>

\* the call returns to the caller, who may then make the next one
Return ==
    /\ call.op # "none"
    /\ call' = NoCall
    /\ UNCHANGED <<file, backup, iter, io>>

Next == Add \/ Get \/ Update \/ Remove \/ Return

Spec == Init /\ [][Next]_vars

(***************************************************************************)
(* The store over journals of record lines and an opaque line, over an     *)
(* absent journal file and over journal files that do not load.            *)
(***************************************************************************)
StoreLineTexts == {to_string(RecA), to_string(RecB), OpaqueLine}

StoreContents ==
    {Join(ls, last) :
        <<ls, last>> \in {p \in (UNION {[1..n -> StoreLineTexts] : n \in 0..MaxLines})
                                    \X {<<>>, <<LF>>} :
                              Len(p[1]) = 0 => p[2] = <<>>}}

\* files Rope::from_reader fails on
UnreadableContents ==
    {<<InvalidByte>>, to_string(RecA) \o <<LF, InvalidByte, LF>>}

StoreInit ==
    /\ file \in {None} \cup {Some(c) : c \in StoreContents \cup UnreadableContents}
    /\ backup = None
    /\ call = NoCall
    /\ iter = NoIter
    /\ io = NoFlush

StoreSpec == StoreInit /\ [][Next]_vars

(***************************************************************************)
(* Iter::flush step by step, with I/O faults.  Each step is one call of    *)
(* the file system; it succeeds or fails, and a failed copy or write may   *)
(* have done part of its work.  The process may stop between any two       *)
(* steps.  io.text is the rope being written, io.old the journal file when *)
(* flush began, io.pos the number of characters the file has received,     *)
(* io.error the error kept in flush's `result`, io.failed the steps that   *)
(* failed.                                                                 *)
(*                                                                         *)
(* Rope::write_to hands the rope's chunks to the BufWriter with write_all  *)
(* and returns without flushing it.  The BufWriter writes its buffer to    *)
(* the file whenever the buffer is full, reporting a failure to write_to;  *)
(* what is left in the buffer is written when the BufWriter is dropped at  *)
(* the end of write_to, and a failure of that write is not reported.       *)
(***************************************************************************)
\* the capacity of the BufWriter, in characters, scaled to the journals of
\* the model
BufCapacity == 8

\* the error of a failed step
ErrOf(step) == [ok |-> FALSE, val |-> step]

\* what a failed copy or write of text may leave behind of it
Partial(text) == {<<>>, SubSeq(text, 1, Len(text) \div 2)}

\* the calls whose flush is followed step by step
FlushQueries == {<<>>, <<Rest(None), Note(<<>>)>>}

FlushOffsets == {Some(0), Some(-1)}

\* update or remove up to the call of flush: the resolver, f and the change
\* of the rope, as in update and remove
FlushBegin ==
    /\ call.op = "none" /\ io.pc = "idle" /\ IsSome(file)
    /\ \E query \in FlushQueries, offset \in FlushOffsets, op \in {"update", "remove"} :
           \E done \in {IF op = "update" THEN update(Fs, query, offset, Replace(RecB))
                        ELSE remove(Fs, query, offset, Confirm)} :
               /\ done.flushed
               /\ call' = [NoCall EXCEPT !.op = op, !.query = query,
                                         !.offset = offset,
                                         !.f = IF op = "update" THEN Replace(RecB)
                                               ELSE Confirm,
                                         !.pre = Fs,
                                         !.found = done.found, !.f_arg = done.f_arg,
                                         !.flushed = TRUE, !.cur = done.cur,
                                         !.anchor = done.anchor]
               /\ io' = [NoFlush EXCEPT !.pc = "copy",
                                        !.text = Unwrap(done.fs.file),
                                        !.old = file]
               /\ UNCHANGED <<file, backup, iter>>

\* flush returns result to update or remove, which return it with `?` or
\* return Ok(true)
FlushReturns(result) ==
    /\ call' = [call EXCEPT !.result = IF result.ok THEN Ok(TRUE) ELSE result]
    /\ io' = [io EXCEPT !.pc = "returned",
                        !.failed = IF result.ok \/ result.val = "write" THEN @
                                   ELSE @ \cup {result.val}]

\* flush that goes on to open the journal file after a failed copy
FlushCopyGoingOn ==
    /\ io.pc = "copy"
    /\ \/ /\ backup' = file
          /\ io' = [io EXCEPT !.pc = "open"]
       \/ /\ \E left \in {backup} \cup {Some(t) : t \in Partial(Unwrap(file))} :
                 backup' = left
          /\ io' = [io EXCEPT !.pc = "open", !.failed = @ \cup {"copy"}]
    /\ UNCHANGED <<file, call, iter>>

\* fs::copy(&self.path, &backup)?
FlushCopy ==
    /\ io.pc = "copy"
    /\ \/ /\ backup' = file
          /\ io' = [io EXCEPT !.pc = "open"]
          /\ UNCHANGED call
       \/ /\ \E left \in {backup} \cup {Some(t) : t \in Partial(Unwrap(file))} :
                 backup' = left
          /\ FlushReturns(ErrOf("copy"))
    /\ UNCHANGED <<file, iter>>

\* OpenOptions::new().truncate(true).write(true).open(&self.path)?
FlushOpen ==
    /\ io.pc = "open"
    /\ \/ /\ file' = Some(<<>>)
          /\ io' = [io EXCEPT !.pc = "write"]
          /\ UNCHANGED call
       \/ /\ FlushReturns(ErrOf("open"))
          /\ UNCHANGED file
    /\ UNCHANGED <<backup, iter>>

\* self.rope.write_to(BufWriter::new(file)): the BufWriter's buffer is full
\* and is written to the file, or the rope has been handed over and write_to
\* returns Ok
FlushWrite ==
    /\ io.pc = "write"
    /\ IF Len(io.text) - io.pos > BufCapacity
       THEN \E block \in {SubSeq(io.text, io.pos + 1, io.pos + BufCapacity)} :
                \/ /\ file' = Some(Unwrap(file) \o block)
                   /\ io' = [io EXCEPT !.pos = @ + BufCapacity]
                \/ /\ \E part \in Partial(block) : file' = Some(Unwrap(file) \o part)
                   /\ io' = [io EXCEPT !.pc = "restore", !.error = Some("write"),
                                       !.failed = @ \cup {"write"}]
       ELSE /\ io' = [io EXCEPT !.pc = "drop"]
            /\ UNCHANGED file
    /\ UNCHANGED <<backup, call, iter>>

\* the BufWriter is dropped at the end of write_to: it writes what is left
\* in its buffer and ignores a failure
FlushDrop ==
    /\ io.pc = "drop"
    /\ \E rest \in {SubSeq(io.text, io.pos + 1, Len(io.text))} :
           \/ /\ file' = Some(Unwrap(file) \o rest)
              /\ io' = [io EXCEPT !.pc = "remove", !.pos = Len(io.text)]
           \/ /\ rest # <<>>
              /\ \E part \in Partial(rest) : file' = Some(Unwrap(file) \o part)
              /\ io' = [io EXCEPT !.pc = "remove", !.failed = @ \cup {"drop"}]
    /\ UNCHANGED <<backup, call, iter>>

\* fs::copy(&backup, &self.path)?; Err(err.into())
FlushRestore ==
    /\ io.pc = "restore"
    /\ \/ /\ file' = backup
          /\ io' = [io EXCEPT !.pc = "remove"]
          /\ UNCHANGED call
       \/ /\ \E part \in Partial(Unwrap(backup)) : file' = Some(part)
          /\ FlushReturns(ErrOf("restore"))
    /\ UNCHANGED <<backup, iter>>

\* flush that returns its result without deleting the backup
FlushRemoveKeepingBackup ==
    /\ io.pc = "remove"
    /\ FlushReturns(IF IsSome(io.error) THEN ErrOf(Unwrap(io.error)) ELSE Ok(Unit))
    /\ UNCHANGED <<file, backup, iter>>

\* fs::remove_file(&backup)?; result
FlushRemove ==
    /\ io.pc = "remove"
    /\ \/ /\ backup' = None
          /\ FlushReturns(IF IsSome(io.error) THEN ErrOf(Unwrap(io.error))
                          ELSE Ok(Unit))
       \/ /\ FlushReturns(ErrOf("remove"))
          /\ UNCHANGED backup
    /\ UNCHANGED <<file, iter>>

\* the process stops in the middle of flush
Crash ==
    /\ io.pc \in {"copy", "open", "write", "drop", "restore", "remove"}
    /\ io' = [io EXCEPT !.pc = "crashed"]
    /\ UNCHANGED <<file, backup, call, iter>>

FlushNext ==
    \/ FlushBegin
    \/ FlushCopy
    \/ FlushOpen
    \/ FlushWrite
    \/ FlushDrop
    \/ FlushRestore
    \/ FlushRemove
    \/ Crash

FlushSpec == Init /\ [][FlushNext]_vars

(***************************************************************************)
(* Formatting and parsing on their own: a Record value is drawn, to_string *)
(* formats it and from_str parses the text.  The values cover what the     *)
(* type Record admits: a start with or without a nanosecond part,          *)
(* durations of whole and of fractional minutes, positive and negative,    *)
(* and notes with and without the characters the regex treats specially.   *)
(***************************************************************************)
RoundTripStarts == {None, Some(DateTime(1)), Some([sec |-> 1, nano |-> 500])}

RoundTripDurations == {None, Some(minutes(33)), Some(minutes(-5)), Some(90)}

RoundTripNotes == {<<>>, <<"a">>, <<" ", "a">>, <<"a", "|", "b">>}

RoundTripRecords ==
    {Record(start, activity, rest, note) :
        start \in RoundTripStarts, activity \in RoundTripDurations,
        rest \in RoundTripDurations, note \in RoundTripNotes}

RecordInit ==
    /\ file = None
    /\ backup = None
    /\ call \in {[NoCall EXCEPT !.record = r] : r \in RoundTripRecords}
    /\ iter = NoIter
    /\ io = NoFlush

\* let line = record.to_string();
RecordToString ==
    /\ call.op = "none"
    /\ call' = [call EXCEPT !.op = "to_string", !.result = Ok(to_string(call.record))]
    /\ UNCHANGED <<file, backup, iter, io>>

\* line.parse::<Record>()
RecordFromStr ==
    /\ call.op = "to_string"
    /\ call' = [call EXCEPT !.op = "from_str", !.found = from_str(call.result.val)]
    /\ UNCHANGED <<file, backup, iter, io>>

RecordNext == RecordToString \/ RecordFromStr

RecordSpec == RecordInit /\ [][RecordNext]_vars

(***************************************************************************)
(* The cursor on its own: an Iter is created at position None over a       *)
(* buffer and its methods are called in any order.  call keeps the last    *)
(* method called, its arguments, the cursor before the call (it) and what  *)
(* the call returned; last_get is what the call before returned when it   *)
(* was a get.  A forward whose addition overflows either panics (a build   *)
(* with overflow checks) or goes on with the wrapped sum (a build          *)
(* without).                                                               *)
(***************************************************************************)
\* Iter::go_to_record: the statements of iter_to_record, on the cursor itself
go_to_record(it, query, offset) == iter_to_record(it, query, offset)

Panic == [ok |-> FALSE, val |-> "panic"]

NoIterCall ==
    [op |-> "none", n |-> 0, query |-> <<>>, offset |-> None, item |-> None,
     it |-> NoIter, result |-> Ok(Unit), last_get |-> None]

IterCall(op, result) ==
    [NoIterCall EXCEPT !.op = op, !.it = iter, !.result = result]

\* the counts given to forward and backward
Counts == {0, 1, 2, UsizeMax}

GoToOffsets == {None, Some(1), Some(-1)}

\* a record of a minute and a half, which to_string prints as "[, 1]"
RecSeconds == Record(None, Some(90), None, <<>>)

UpdateItems == {ItemRecord(RecB), ItemRecord(RecSeconds), SomeLine(OpaqueLine)}

IterInit ==
    /\ file = None
    /\ backup = None
    /\ call = NoIterCall
    /\ iter \in {Iter(Rope(c), None) : c \in Contents}
    /\ io = NoFlush

Forward ==
    /\ call.op = "none"
    /\ \E n \in Counts :
           \/ /\ iter' = forward(iter, n)
              /\ call' = [IterCall("forward", Ok(Unit)) EXCEPT !.n = n]
           \/ /\ forward_panics(iter, n)
              /\ iter' = iter
              /\ call' = [IterCall("forward", Panic) EXCEPT !.n = n]
    /\ UNCHANGED <<file, backup, io>>

Backward ==
    /\ call.op = "none"
    /\ \E n \in Counts :
           /\ iter' = backward(iter, n)
           /\ call' = [IterCall("backward", Ok(Unit)) EXCEPT !.n = n]
    /\ UNCHANGED <<file, backup, io>>

IterNext ==
    /\ call.op = "none"
    /\ \E step \in {next(iter)} :
           /\ iter' = step.iter
           /\ call' = IterCall("next", Ok(step.item))
    /\ UNCHANGED <<file, backup, io>>

IterGet ==
    /\ call.op = "none"
    /\ call' = [IterCall("get", Ok(iter_get(iter))) EXCEPT
                   !.last_get = call.last_get]
    /\ UNCHANGED <<file, backup, iter, io>>

GoToStart ==
    /\ call.op = "none"
    /\ iter' = go_to_start(iter)
    /\ call' = IterCall("go_to_start", Ok(Unit))
    /\ UNCHANGED <<file, backup, io>>

GoToEnd ==
    /\ call.op = "none"
    /\ iter' = go_to_end(iter)
    /\ call' = IterCall("go_to_end", Ok(Unit))
    /\ UNCHANGED <<file, backup, io>>

GoToRecord ==
    /\ call.op = "none"
    /\ \E query \in FlushQueries, offset \in GoToOffsets :
           \E done \in {go_to_record(iter, query, offset)} :
               /\ iter' = done.iter
               /\ call' = [IterCall("go_to_record", Ok(done.record)) EXCEPT
                              !.query = query, !.offset = offset]
    /\ UNCHANGED <<file, backup, io>>

IterUpdate ==
    /\ call.op = "none"
    /\ \E item \in UpdateItems :
           \E done \in {iter_update(iter, item)} :
               /\ lines_count(done.iter) <= MaxLines
               /\ iter' = done.iter
               /\ call' = [IterCall("update", Ok(done.ret)) EXCEPT !.item = Some(item)]
    /\ UNCHANGED <<file, backup, io>>

IterRemove ==
    /\ call.op = "none"
    /\ \E done \in {iter_remove(iter)} :
           /\ iter' = done.iter
           /\ call' = IterCall("remove", Ok(done.ret))
    /\ UNCHANGED <<file, backup, io>>

\* the call is over; what a get returned is kept for the call that follows
IterReturn ==
    /\ call.op # "none"
    /\ call' = [NoIterCall EXCEPT
                   !.last_get = IF call.op = "get" THEN Some(call.result) ELSE None]
    /\ UNCHANGED <<file, backup, iter, io>>

IterSteps ==
    \/ Forward \/ Backward \/ IterNext \/ IterGet \/ GoToStart \/ GoToEnd
    \/ GoToRecord \/ IterUpdate \/ IterRemove \/ IterReturn

IterSpec == IterInit /\ [][IterSteps]_vars

(***************************************************************************)
(* Counting and walking the lines of a buffer: a cursor is created over a  *)
(* buffer, lines_count is called and next is called until it returns None. *)
(* The buffers are the journal contents and buffers whose last line is     *)
(* longer than a chunk of the rope.  call keeps what lines_count returned  *)
(* and the items next returned, in order.                                  *)
(***************************************************************************)
\* a record line longer than a chunk
LongLine == <<"[", ",", " ", "]", " ">> \o [i \in 1..ChunkChars |-> "n"]

LongContents ==
    {LongLine, LongLine \o <<LF>>,
     OpaqueLine \o <<LF>> \o LongLine, OpaqueLine \o <<LF>> \o LongLine \o <<LF>>}

NoWalk == [op |-> "new", count |-> None, items |-> <<>>]

LinesInit ==
    /\ file = None
    /\ backup = None
    /\ call = NoWalk
    /\ iter \in {Iter(Rope(c), None) : c \in Contents \cup LongContents}
    /\ io = NoFlush

LinesCount ==
    /\ call.count = None
    /\ call' = [call EXCEPT !.op = "lines_count", !.count = Some(lines_count(iter))]
    /\ UNCHANGED <<file, backup, iter, io>>

\* while let Some(item) = iter.next()
LinesNext ==
    /\ IF call.items = <<>> THEN TRUE ELSE IsSome(call.items[Len(call.items)])
    /\ \E step \in {next(iter)} :
           /\ iter' = step.iter
           /\ call' = [call EXCEPT !.op = "next", !.items = Append(@, step.item)]
    /\ UNCHANGED <<file, backup, io>>

LinesSteps == LinesCount \/ LinesNext

LinesSpec == LinesInit /\ [][LinesSteps]_vars

(***************************************************************************)
(* Two callers on one journal file.  The store takes no lock, so the steps *)
(* of one call (load and change in memory, copy to the backup, truncate,   *)
(* write, remove the backup) interleave with the other caller's.  Each     *)
(* caller makes one call; no I/O fault occurs.                             *)
(***************************************************************************)
Procs == {1, 2}

Other(p) == 3 - p

\* OpenOptions::truncate(true): the file loses its content
truncate_nothing(content) == content

truncate(content) == <<>>

\* a write of text through a handle at offset 0: it replaces the bytes it
\* covers and keeps what lies beyond them
write_at_start(content, text) ==
    text \o SubSeq(content, Len(text) + 1, Len(content))

RaceContents ==
    {Join(ls, <<LF>>) :
        ls \in UNION {[1..n -> {to_string(RecA), to_string(RecB)}] : n \in 1..MaxLines}}

RaceOffsets == {None, Some(-1)}

Idle ==
    [op |-> "none", pc |-> "idle", record |-> DefaultRecord, query |-> <<>>,
     offset |-> None, f |-> NoFn, text |-> <<>>, result |-> Ok(Unit)]

RaceInit ==
    /\ file \in {Some(c) : c \in RaceContents}
    /\ backup = None
    /\ call = [start |-> file, overlapped |-> FALSE, procs |-> [p \in Procs |-> Idle]]
    /\ iter = NoIter
    /\ io = NoFlush

InProgress(p) == call.procs[p].pc \notin {"idle", "done"}

\* p's call begins: it overlaps the other caller's when that one is under way
Begun(p, c) ==
    [call EXCEPT !.procs[p] = c,
                 !.overlapped = call.overlapped \/ InProgress(Other(p))]

Step(p, pc, f, b) ==
    /\ file' = f
    /\ backup' = b
    /\ call' = [call EXCEPT !.procs[p].pc = pc]
    /\ UNCHANGED <<iter, io>>

\* add: one append to the file
RaceAdd(p) ==
    /\ call.procs[p].pc = "idle"
    /\ \E record \in Records :
           \E done \in {add(Fs, record)} :
               /\ file' = done.fs.file
               /\ call' = Begun(p, [Idle EXCEPT !.op = "add", !.pc = "done",
                                                !.record = record,
                                                !.result = done.result])
               /\ UNCHANGED <<backup, iter, io>>

\* update or remove up to the call of flush: the journal is loaded, the
\* target resolved and the rope changed in memory; without a change the call
\* is over
Loaded(p, op, query, offset, f, done) ==
    /\ call' = Begun(p, [Idle EXCEPT !.op = op, !.query = query, !.offset = offset,
                                     !.f = f,
                                     !.pc = IF done.flushed THEN "loaded" ELSE "done",
                                     !.text = IF done.flushed
                                              THEN Unwrap(done.fs.file)
                                              ELSE <<>>,
                                     !.result = done.result])
    /\ UNCHANGED <<file, backup, iter, io>>

RaceUpdate(p) ==
    /\ call.procs[p].pc = "idle"
    /\ \E query \in Queries, offset \in RaceOffsets :
           Loaded(p, "update", query, offset, Replace(RecB),
                  update(Fs, query, offset, Replace(RecB)))

RaceRemove(p) ==
    /\ call.procs[p].pc = "idle"
    /\ \E query \in Queries, offset \in RaceOffsets :
           Loaded(p, "remove", query, offset, Confirm,
                  remove(Fs, query, offset, Confirm))

\* fs::copy(&self.path, &backup)
RaceCopy(p) ==
    /\ call.procs[p].pc = "loaded"
    /\ Step(p, "copied", file, file)

\* OpenOptions::new().truncate(true).write(true).open(&self.path)
RaceTruncate(p) ==
    /\ call.procs[p].pc = "copied"
    /\ Step(p, "truncated", Some(truncate(Unwrap(file))), backup)

\* self.rope.write_to(BufWriter::new(file)): the rope goes out when the
\* writer is dropped
RaceWrite(p) ==
    /\ call.procs[p].pc = "truncated"
    /\ Step(p, "written", Some(write_at_start(Unwrap(file), call.procs[p].text)), backup)

\* fs::remove_file(&backup)?: an error when the other caller removed it
RaceRemoveBackup(p) ==
    /\ call.procs[p].pc = "written"
    /\ file' = file
    /\ backup' = None
    /\ call' = [call EXCEPT !.procs[p].pc = "done",
                            !.procs[p].result = IF IsSome(backup)
                                                THEN call.procs[p].result
                                                ELSE Err]
    /\ UNCHANGED <<iter, io>>

RaceNext ==
    \E p \in Procs :
        \/ RaceAdd(p)
        \/ RaceUpdate(p)
        \/ RaceRemove(p)
        \/ RaceCopy(p)
        \/ RaceTruncate(p)
        \/ RaceWrite(p)
        \/ RaceRemoveBackup(p)

RaceSpec == RaceInit /\ [][RaceNext]_vars

(***************************************************************************)
(* LinesWalker of util/lines.rs: a reader over the bytes of a file, read   *)
(* forward line by line and backward byte by byte.  A walker is the bytes  *)
(* and the reader's position; the reader is a Cursor, whose reads and      *)
(* seeks inside the bytes do not fail.                                     *)
(***************************************************************************)
\* the longest file of the walker's specification
MaxBytes == 5

LinesWalker(bytes, pos) == [bytes |-> bytes, pos |-> pos]

\* LinesWalker::read_prev_byte: the byte before the position, the position
\* being the same afterwards
read_prev_byte(w) == w.bytes[w.pos]

\* the position after the line that starts at pos: after its "\n", or the
\* end of the bytes
RECURSIVE LineEnd(_, _)
LineEnd(bytes, pos) ==
    IF pos >= Len(bytes) THEN Len(bytes)
    ELSE IF bytes[pos + 1] = LF THEN pos + 1
    ELSE LineEnd(bytes, pos + 1)

\* the pops of read_line: a final "\n" and then one "\r" before it
pop_line_break(buf) ==
    LET popped(b) == IF Len(b) > 0 /\ b[Len(b)] = CR THEN SubSeq(b, 1, Len(b) - 1) ELSE b
    IN  IF Len(buf) > 0 /\ buf[Len(buf)] = LF
        THEN popped(SubSeq(buf, 1, Len(buf) - 1))
        ELSE buf

\* LinesWalker::read_line: the walker after the read, the bytes read
\* (readed) and the line without its line break (buf)
read_line(w) ==
    LET done(end) ==
            [walker |-> [w EXCEPT !.pos = end],
             readed |-> end - w.pos,
             buf    |-> pop_line_break(SubSeq(w.bytes, w.pos + 1, end))]
    IN  done(LineEnd(w.bytes, w.pos))

\* Iterator::next of LinesWalker
lines_next(w) ==
    LET matched(read) ==
            [walker |-> read.walker,
             item   |-> IF read.readed = 0 THEN None ELSE Some(read.buf)]
    IN  matched(read_line(w))

\* the first statement of read_process: the position before the "\n", and
\* before the "\r" in front of it, when the byte before the position is "\n"
before_line_break(w) ==
    IF read_prev_byte(w) = LF
    THEN IF w.pos - 1 > 0 /\ read_prev_byte([w EXCEPT !.pos = w.pos - 1]) = CR
         THEN w.pos - 2
         ELSE w.pos - 1
    ELSE w.pos

\* the loop of read_process: back to the position after the nearest "\n"
\* before pos, or to the start of the bytes
RECURSIVE back_to_line_start(_, _)
back_to_line_start(bytes, pos) ==
    IF pos = 0 \/ bytes[pos] = LF THEN pos
    ELSE back_to_line_start(bytes, pos - 1)

\* rev_skip_next that leaves the reader after the line it has read
RECURSIVE rev_loop_staying_after_line(_, _)
rev_loop_staying_after_line(w, i) ==
    IF w.pos = 0 THEN [walker |-> w, item |-> None]
    ELSE LET at(pos) ==
                 LET start == IF pos > 0 THEN back_to_line_start(w.bytes, pos) ELSE pos
                 IN  IF i = 0
                     THEN [walker |-> IF pos > 0
                                      THEN read_line([w EXCEPT !.pos = start]).walker
                                      ELSE [w EXCEPT !.pos = start],
                           item   |-> Some(IF pos > 0
                                           THEN read_line([w EXCEPT !.pos = start]).buf
                                           ELSE <<>>)]
                     ELSE rev_loop_staying_after_line([w EXCEPT !.pos = start], i - 1)
         IN  at(before_line_break(w))

\* the for loop of rev_skip_next, i counting down to 0: each round goes back
\* one line, the last one reads the line and seeks back to its start
RECURSIVE rev_loop(_, _)
rev_loop(w, i) ==
    IF w.pos = 0 THEN [walker |-> w, item |-> None]
    ELSE LET at(pos) ==
                 LET start == IF pos > 0 THEN back_to_line_start(w.bytes, pos) ELSE pos
                 IN  IF i = 0
                     THEN [walker |-> [w EXCEPT !.pos = start],
                           item   |-> Some(IF pos > 0
                                           THEN read_line([w EXCEPT !.pos = start]).buf
                                           ELSE <<>>)]
                     ELSE rev_loop([w EXCEPT !.pos = start], i - 1)
         IN  at(before_line_break(w))

\* LinesWalker::rev_skip_next, as built without overflow checks: the range
\* 0 .. skipped + 1 is empty when skipped + 1 wraps to 0
rev_skip_next(w, skipped) ==
    IF wrapping_add(skipped, 1) = 0
    THEN [walker |-> w, item |-> Some(<<>>)]
    ELSE rev_loop(w, wrapping_add(skipped, 1) - 1)

\* rev_skip_next panics: skipped + 1 overflows in a build with overflow
\* checks
rev_skip_next_panics(skipped) == add_overflows(skipped, 1)

\* LinesWalker::rev_next
rev_next(w) == rev_skip_next(w, 0)

\* LinesWalker::go_to_end
seek_end(w) == [w EXCEPT !.pos = Len(w.bytes)]

\* the files of the walker's specification
WalkerContents ==
    UNION {[1..n -> {"a", CR, LF}] : n \in 0..MaxBytes}

\* the counts given to rev_skip_next
Skips == {0, 1, 2, UsizeMax}

\* no call yet; a call is recorded with the position it began at, the call
\* before it (last), and the items of the rev_next calls since a go_to_end
\* when nothing but rev_next was called since (rev)
NoWalkerCall ==
    [op |-> "new", skipped |-> 0, pos |-> 0, result |-> Ok(None),
     last |-> [op |-> "new", pos |-> 0, result |-> Ok(None)], rev |-> None]

WalkerCall(op, skipped, result, rev) ==
    [op |-> op, skipped |-> skipped, pos |-> iter.pos, result |-> result,
     last |-> [op |-> call.op, pos |-> call.pos, result |-> call.result],
     rev |-> rev]

WalkerInit ==
    /\ file = None
    /\ backup = None
    /\ call = NoWalkerCall
    /\ iter \in {LinesWalker(bytes, 0) : bytes \in WalkerContents}
    /\ io = NoFlush

WalkerNext ==
    /\ \E step \in {lines_next(iter)} :
           /\ iter' = step.walker
           /\ call' = WalkerCall("next", 0, Ok(step.item), None)
    /\ UNCHANGED <<file, backup, io>>

WalkerRevNext ==
    /\ IF IsSome(call.rev) /\ Unwrap(call.rev) # <<>>
       THEN IsSome(Unwrap(call.rev)[Len(Unwrap(call.rev))])
       ELSE TRUE
    /\ \E step \in {rev_next(iter)} :
           /\ iter' = step.walker
           /\ call' = WalkerCall("rev_next", 0, Ok(step.item),
                                 IF IsSome(call.rev)
                                 THEN Some(Append(Unwrap(call.rev), step.item))
                                 ELSE None)
    /\ UNCHANGED <<file, backup, io>>

WalkerRevSkipNext ==
    /\ \E skipped \in Skips \ {0} :
           \/ \E step \in {rev_skip_next(iter, skipped)} :
                  /\ iter' = step.walker
                  /\ call' = WalkerCall("rev_skip_next", skipped, Ok(step.item), None)
           \/ /\ rev_skip_next_panics(skipped)
              /\ iter' = iter
              /\ call' = WalkerCall("rev_skip_next", skipped, Panic, None)
    /\ UNCHANGED <<file, backup, io>>

WalkerGoToEnd ==
    /\ iter' = seek_end(iter)
    /\ call' = WalkerCall("go_to_end", 0, Ok(None), Some(<<>>))
    /\ UNCHANGED <<file, backup, io>>

WalkerSteps == WalkerNext \/ WalkerRevNext \/ WalkerRevSkipNext \/ WalkerGoToEnd

WalkerSpec == WalkerInit /\ [][WalkerSteps]_vars

(***************************************************************************)
(* The get of the earlier revision, journal/file.rs.  Its Iter yields      *)
(* records only: the next() of a line that does not parse is None.  The    *)
(* fields it calls duration and correction are the activity and rest of    *)
(* the present Record.                                                     *)
(***************************************************************************)
\* impl Iterator for Iter, file.rs: line(idx).as_str().map(from_str).ok()
historical_next(it) ==
    LET next_line_idx == IF IsSome(it.cur_line_idx)
                         THEN wrapping_add(Unwrap(it.cur_line_idx), 1)
                         ELSE 0
        count == lines_count(it)
        parsed(s) == IF IsSome(s) THEN from_str(Unwrap(s)) ELSE None
    IN  IF next_line_idx < count
        THEN [iter |-> [it EXCEPT !.cur_line_idx = Some(next_line_idx)],
              item |-> parsed(as_str(it.rope, next_line_idx))]
        ELSE [iter |-> [it EXCEPT !.cur_line_idx = Some(count)], item |-> None]

\* LinesIterator::rev_next
historical_rev_next(it) ==
    IF IsSome(it.cur_line_idx)
    THEN LET idx == Unwrap(it.cur_line_idx)
             back == [it EXCEPT !.cur_line_idx = IF idx > 1 THEN Some(idx - 2) ELSE None]
         IN  IF idx > 0 THEN historical_next(back) ELSE [iter |-> back, item |-> None]
    ELSE [iter |-> it, item |-> None]

\* LinesIterator::rev_skip_next
historical_rev_skip_next(it, skipped) ==
    IF IsSome(it.cur_line_idx)
    THEN historical_rev_next(
             [it EXCEPT !.cur_line_idx = IF Unwrap(it.cur_line_idx) < skipped THEN None
                                         ELSE Some(Unwrap(it.cur_line_idx) - skipped)])
    ELSE [iter |-> it, item |-> None]

\* Iterator::skip(n).next(): next() n + 1 times, over at the first None
RECURSIVE skip_next(_, _)
skip_next(it, n) ==
    LET taken(step) ==
            IF n = 0 \/ ~IsSome(step.item) THEN step ELSE skip_next(step.iter, n - 1)
    IN  taken(historical_next(it))

\* the 'next_record loop of the earlier get: the cursor where it ends and the
\* matching record if one was found
RECURSIVE historical_next_record(_, _)
historical_next_record(it, query) ==
    LET while_let(step) ==
            IF IsSome(step.item)
            THEN IF \A i \in 1..Len(query) : field_matches(query[i], Unwrap(step.item))
                 THEN [iter |-> step.iter, record |-> step.item]
                 ELSE historical_next_record(step.iter, query)
            ELSE [iter |-> step.iter, record |-> None]
    IN  while_let(historical_next(it))

\* the earlier get that never counts a negative offset from the end
historical_get_never_from_end(it, query, offset) ==
    LET off == unwrap_or_0(offset)
        matched(found) ==
            IF IsSome(found.record)
            THEN LET cur_line_idx == Unwrap(found.iter.cur_line_idx)
                     count == lines_count(found.iter)
                 IN  IF off = 0 THEN found.record
                     ELSE IF off > 0 /\ cur_line_idx + off < count
                     THEN skip_next(found.iter, off - 1).item
                     ELSE IF off < 0 /\ cur_line_idx + off >= 0
                     THEN historical_rev_skip_next(found.iter, -(off + 1)).item
                     ELSE None
            ELSE None
    IN  matched(historical_next_record(it, query))

\* FileJournal::get of file.rs, on the cursor try_iter returns
historical_get(it, query, offset) ==
    LET off == unwrap_or_0(offset)
        matched(found) ==
            IF IsSome(found.record)
            THEN LET cur_line_idx == Unwrap(found.iter.cur_line_idx)
                     count == lines_count(found.iter)
                     start_idx == IF cur_line_idx = 0 THEN count ELSE cur_line_idx
                     from == IF cur_line_idx = 0 THEN go_to_end(found.iter)
                             ELSE found.iter
                 IN  IF off = 0 THEN found.record
                     ELSE IF off > 0 /\ cur_line_idx + off < count
                     THEN skip_next(found.iter, off - 1).item
                     ELSE IF off < 0 /\ start_idx + off >= 0
                     THEN historical_rev_skip_next(from, -(off + 1)).item
                     ELSE None
            ELSE None
    IN  matched(historical_next_record(it, query))

\* the journals both revisions are asked about: those of the store and
\* those with a line longer than a rope chunk
RevisionContents == StoreContents \cup LongContents

NoAnswer == [op |-> "none", query |-> <<>>, offset |-> None,
             historical |-> None, current |-> None]

RevisionInit ==
    /\ file \in {Some(c) : c \in RevisionContents}
    /\ backup = None
    /\ call = NoAnswer
    /\ iter = NoIter
    /\ io = NoFlush

\* the earlier get answers a query
HistoricalGet ==
    /\ call.op = "none"
    /\ \E query \in Queries, offset \in Offsets :
           call' = [NoAnswer EXCEPT !.op = "historical", !.query = query,
                                    !.offset = offset,
                                    !.historical =
                                        historical_get(try_iter(Fs).val, query, offset)]
    /\ UNCHANGED <<file, backup, iter, io>>

\* the present get answers the same query
CurrentGet ==
    /\ call.op = "historical"
    /\ call' = [call EXCEPT !.op = "both",
                            !.current = get(Fs, call.query, call.offset).result.val]
    /\ UNCHANGED <<file, backup, iter, io>>

RevisionNext == HistoricalGet \/ CurrentGet

RevisionSpec == RevisionInit /\ [][RevisionNext]_vars

(***************************************************************************)
(* get with offsets at the ends of the i32 range.  -offset overflows for   *)
(* the least i32: the build decides whether the call panics or goes on     *)
(* with the wrapped value.                                                 *)
(***************************************************************************)
WideOffsets == {Some(I32Min), Some(I32Min + 1), Some(-1), Some(I32Max)}

WideInit ==
    /\ file \in {Some(c) : c \in StoreContents}
    /\ backup = None
    /\ call = NoCall
    /\ iter = NoIter
    /\ io = NoFlush

WideGet ==
    /\ call.op = "none"
    /\ \E query \in Queries, offset \in WideOffsets :
           \/ \E done \in {get(Fs, query, offset)} :
                  call' = [NoCall EXCEPT !.op = "get", !.query = query,
                                         !.offset = offset, !.pre = Fs,
                                         !.result = done.result, !.found = done.found,
                                         !.cur = done.cur, !.anchor = done.anchor]
           \/ /\ iter_to_record_panics(try_iter(Fs).val, query, offset)
              /\ call' = [NoCall EXCEPT !.op = "get", !.query = query,
                                        !.offset = offset, !.pre = Fs,
                                        !.result = Panic]
    /\ UNCHANGED <<file, backup, iter, io>>

WideNext == WideGet

WideSpec == WideInit /\ [][WideNext]_vars

(***************************************************************************)
(* The store after an interrupted flush: the process stopped after the     *)
(* truncation, the backup holds the old journal and the journal file what  *)
(* had been written of the new one.  The next process calls the store.     *)
(***************************************************************************)
\* what the journal file holds when a flush of text stops after the
\* truncation: nothing, or the buffers written through so far
Interrupted(text) ==
    {SubSeq(text, 1, k * BufCapacity) : k \in 0..((Len(text) - 1) \div BufCapacity)}

\* the journal files a flushing update or remove of the journal old leaves
\* when it is interrupted, with the rope it was writing
InterruptedFlushes(old) ==
    LET fs == [file |-> Some(old), backup |-> None]
        calls == {update(fs, query, offset, Replace(RecB)) :
                      query \in FlushQueries, offset \in FlushOffsets}
                 \cup {remove(fs, query, offset, Confirm) :
                      query \in FlushQueries, offset \in FlushOffsets}
        flushes == {Unwrap(done.fs.file) : done \in {d \in calls : d.flushed}}
    IN  UNION {{[file |-> torn, text |-> text] :
                   torn \in Interrupted(text) \ {old, text}} : text \in flushes}

\* the journals the interrupted flush started from: journals as the store
\* writes them, every line terminated
MaxOldLines == 2

RecoveryContents ==
    {c \in StoreContents : /\ lines_count(Iter(Rope(c), None)) <= MaxOldLines
                           /\ Len(c) > 0 => c[Len(c)] = LF}

RecoveryInit ==
    /\ \E old \in RecoveryContents :
           \E left \in InterruptedFlushes(old) :
               /\ file = Some(left.file)
               /\ backup = Some(old)
               /\ io = [NoFlush EXCEPT !.pc = "crashed", !.old = Some(old),
                                       !.text = left.text]
    /\ call = NoCall
    /\ iter = NoIter

RecoverySpec == RecoveryInit /\ [][Next]_vars

(***************************************************************************)
(* What the claims speak of, stated on the journal's text without the      *)
(* cursor: the lines of a journal, numbered from 0, the anchor of a query  *)
(* and the target of a query with an offset.                               *)
(***************************************************************************)
\* the lines of a text from index start on, each with its terminator, read
\* left to right; a final terminator is followed by no further line
RECURSIVE SplitFrom(_, _, _)
SplitFrom(text, i, start) ==
    IF i > Len(text)
    THEN IF start > Len(text) THEN <<>>
         ELSE <<[text |-> SubSeq(text, start, Len(text)), term |-> <<>>]>>
    ELSE IF text[i] = LF
    THEN <<[text |-> SubSeq(text, start, i - 1), term |-> <<LF>>]>>
         \o SplitFrom(text, i + 1, i + 1)
    ELSE IF text[i] = CR /\ At(text, i + 1, LF)
    THEN <<[text |-> SubSeq(text, start, i - 1), term |-> <<CR, LF>>]>>
         \o SplitFrom(text, i + 2, i + 2)
    ELSE IF text[i] = CR
    THEN <<[text |-> SubSeq(text, start, i - 1), term |-> <<CR>>]>>
         \o SplitFrom(text, i + 1, i + 1)
    ELSE SplitFrom(text, i + 1, start)

\* the lines of a journal file; an absent file has none
JournalLines(f) == IF IsSome(f) THEN SplitFrom(Unwrap(f), 1, 1) ELSE <<>>

\* the record a line parses as, None for an opaque line
RecordOf(l) == from_str(l.text \o l.term)

\* line i (from 0) of ls
LineAt(ls, i) == ls[i + 1]

\* what each line of ls parses as, in order
LineRecords(ls) == [i \in 1..Len(ls) |-> RecordOf(ls[i])]

\* the record on line i of a journal whose lines parse as recs, None when i
\* is outside the journal or the line is opaque
RecordAt(recs, i) == IF 0 <= i /\ i < Len(recs) THEN recs[i + 1] ELSE None

\* the lines that are records
RecordLines(recs) == {i \in 0..(Len(recs) - 1) : IsSome(recs[i + 1])}

\* the record satisfies every predicate of the query
Satisfies(record, query) ==
    \A i \in 1..Len(query) :
        \/ query[i].type = "Start" /\ record.start = query[i].value
        \/ query[i].type = "Activity" /\ record.activity = query[i].value
        \/ query[i].type = "Rest" /\ record.rest = query[i].value
        \/ query[i].type = "Note" /\ record.note = query[i].value

\* the lines that are records satisfying the query
MatchingLines(recs, query) ==
    {i \in 0..(Len(recs) - 1) :
        IsSome(recs[i + 1]) /\ Satisfies(Unwrap(recs[i + 1]), query)}

Min(S) == CHOOSE x \in S : \A y \in S : x <= y

\* the first of a set of lines, None when there is none
First(S) == IF S = {} THEN None ELSE Some(Min(S))

\* the anchor: the first line that is a record satisfying the query
Anchor(recs, query) == First(MatchingLines(recs, query))

\* the first record of the journal satisfies the query
FirstRecordMatches(recs, query) ==
    \E i \in MatchingLines(recs, query) : \A j \in 0..(i - 1) : ~IsSome(recs[j + 1])

\* the line an anchor and an offset lead to: the offset counts lines from
\* the anchor, and a negative offset counts from the end of the journal when
\* the anchor is the journal's first record; None when there is no anchor or
\* that line is no record
TargetFrom(recs, anchor, off) ==
    IF IsSome(anchor)
    THEN LET base == IF off < 0 /\ RecordLines(recs) \cap 0..(Unwrap(anchor) - 1) = {}
                     THEN Len(recs)
                     ELSE Unwrap(anchor)
         IN  IF IsSome(RecordAt(recs, base + off)) THEN Some(base + off) ELSE None
    ELSE None

\* the line a query and an offset resolve to
Target(recs, query, off) == TargetFrom(recs, Anchor(recs, query), off)

PreLines == JournalLines(call.pre.file)

PostLines == JournalLines(file)

PreRecords == LineRecords(PreLines)

IsQuery == call.op \in {"get", "update", "remove"} /\ call.result.ok

\* the offset of the call, 0 when none was given
Off == IF IsSome(call.offset) THEN Unwrap(call.offset) ELSE 0

(***************************************************************************)
(* The claims.                                                             *)
(***************************************************************************)
\* C1: when the first record of an n-line journal satisfies the query,
\* get(query, -k) with k >= 1 returns the record on line n-k: None when that
\* line is opaque, and None when k > n.
C1_NegativeOffsetFromEnd ==
    (call.op = "get" /\ call.result.ok /\ Off < 0)
    => LET holds(recs) ==
               FirstRecordMatches(recs, call.query)
               => call.result.val = RecordAt(recs, Len(recs) + Off)
       IN  holds(PreRecords)

\* a get with a negative offset whose anchor is the journal's first record
\* returned a record from a line after the anchor
C1_Witness ==
    /\ call.op = "get" /\ call.result.ok /\ Off < 0
    /\ IsSome(call.result.val)
    /\ FirstRecordMatches(PreRecords, call.query)
    /\ Len(PreLines) + Off > Unwrap(Anchor(PreRecords, call.query))

\* C2: when the first matching record is on line i of an n-line journal,
\* get(query, k) with k > 0 returns the record on line i+k, None when that
\* line is opaque or i+k >= n.
C2_PositiveOffset ==
    (call.op = "get" /\ call.result.ok /\ Off > 0)
    => LET holds(recs, anchor) ==
               IsSome(anchor)
               => call.result.val = RecordAt(recs, Unwrap(anchor) + Off)
           from(recs) == holds(recs, Anchor(recs, call.query))
       IN  from(PreRecords)

\* a get with offset 1 returned the record on the line after an anchor that
\* is not the first line
C2_Witness ==
    /\ call.op = "get" /\ call.result.ok /\ Off = 1
    /\ IsSome(call.result.val)
    /\ Anchor(PreRecords, call.query) = Some(1)
    /\ call.result.val = RecordAt(PreRecords, 2)

\* C3: get(query, Some(0)) and get(query, None) return the same: the first
\* record in file order that satisfies the query, None if there is none.
C3_OffsetZeroIsDefault ==
    (call.op = "get" /\ call.result.ok /\ call.offset \in {None, Some(0)})
    => LET holds(recs, anchor) ==
               call.result.val =
                   IF IsSome(anchor) THEN RecordAt(recs, Unwrap(anchor)) ELSE None
           from(recs) == holds(recs, Anchor(recs, call.query))
       IN  /\ call.result.val =
                  get(call.pre, call.query,
                      IF call.offset = None THEN Some(0) ELSE None).result.val
           /\ from(PreRecords)

\* a get without an offset returned a record that is not on the first line
C3_Witness ==
    /\ call.op = "get" /\ call.result.ok /\ call.offset = None
    /\ IsSome(call.result.val)
    /\ Anchor(PreRecords, call.query) = Some(2)

\* C4: the anchor the resolver stops at is the first line that parses as a
\* record and satisfies every predicate of the query; with the empty query
\* it is the first record; it is never an opaque line.
C4_AnchorIsFirstMatch ==
    IsQuery
    => LET holds(recs) ==
               /\ call.anchor = Anchor(recs, call.query)
               /\ IsSome(call.anchor) => IsSome(RecordAt(recs, Unwrap(call.anchor)))
               /\ call.query = <<>> => call.anchor = First(RecordLines(recs))
       IN  holds(PreRecords)

\* the resolver passed an opaque line and a record failing the query, in
\* this order or the other, and stopped at the third line
C4_Witness ==
    /\ IsQuery /\ call.anchor = Some(2) /\ call.query # <<>>
    /\ Cardinality(RecordLines(PreRecords) \cap {0, 1}) = 1

\* C5: update(query, offset, f) with f returning Some(new) on a resolved
\* target returns true, and afterwards the journal has as many lines as
\* before, the target line is to_string(new), and every other line is as it
\* was, terminator included.
C5_UpdateReplacesOneLine ==
    (call.op = "update" /\ IsSome(call.found) /\ call.f.kind = "replace")
    => LET holds(pre, post, t) ==
               /\ call.result = Ok(TRUE)
               /\ Len(post) = Len(pre)
               /\ t < Len(pre)
               /\ LineAt(post, t).text = to_string(call.f.record)
               /\ \A i \in 0..(Len(pre) - 1) :
                      i # t => LineAt(post, i) = LineAt(pre, i)
       IN  holds(PreLines, PostLines, Unwrap(call.cur))

\* an update replaced the middle line of a three-line journal by a different
\* text
C5_Witness ==
    /\ call.op = "update" /\ call.result = Ok(TRUE)
    /\ call.cur = Some(1) /\ Len(PreLines) = 3
    /\ LineAt(PreLines, 1).text # LineAt(PostLines, 1).text

\* C6: when f returns None for the resolved record, update returns false,
\* flush does not run and the journal file and the backup are as before.
C6_UpdateDeclined ==
    (call.op = "update" /\ IsSome(call.found) /\ call.f.kind = "decline")
    => /\ call.result = Ok(FALSE)
       /\ ~call.flushed
       /\ file = call.pre.file
       /\ backup = call.pre.backup

\* an update resolved a record, called f with it and f declined
C6_Witness ==
    /\ call.op = "update" /\ call.f.kind = "decline"
    /\ IsSome(call.found) /\ call.f_arg = call.found

\* C7: remove(query, offset, f) with f returning true on a resolved target
\* returns true, and afterwards the journal's lines are the lines before
\* without the target line: one line fewer, the others unchanged and in
\* order.
C7_RemoveDeletesOneLine ==
    (call.op = "remove" /\ IsSome(call.found) /\ call.f.kind = "confirm")
    => LET holds(pre, post, t) ==
               /\ call.result = Ok(TRUE)
               /\ t < Len(pre)
               /\ Len(post) = Len(pre) - 1
               /\ post = SubSeq(pre, 1, t) \o SubSeq(pre, t + 2, Len(pre))
       IN  holds(PreLines, PostLines, Unwrap(call.cur))

\* a remove deleted the middle line of a three-line journal
C7_Witness ==
    /\ call.op = "remove" /\ call.result = Ok(TRUE)
    /\ call.cur = Some(1) /\ Len(PreLines) = 3 /\ Len(PostLines) = 2

\* C8: when the query and the offset resolve to no target, get returns
\* Ok(None) and update and remove return Ok(false) without calling f,
\* without flushing and with the file unchanged; the same holds for a remove
\* whose f returns false.
C8_NoTarget ==
    /\ IsQuery
       => \/ /\ call.result.val = (IF call.op = "get" THEN None ELSE FALSE)
             /\ call.f_arg = None
             /\ ~call.flushed
             /\ file = call.pre.file /\ backup = call.pre.backup
          \/ IsSome(Target(PreRecords, call.query, Off))
    /\ (call.op = "remove" /\ call.result.ok /\ call.f.kind = "refuse")
       => /\ call.result.val = FALSE
          /\ ~call.flushed
          /\ file = call.pre.file /\ backup = call.pre.backup

\* an update found an anchor but its offset led to an opaque line, and a
\* remove was refused by f
C8_Witness ==
    \/ /\ call.op = "update" /\ call.result = Ok(FALSE) /\ call.f.kind = "replace"
       /\ IsSome(call.anchor) /\ IsSome(call.cur)
       /\ Unwrap(call.cur) < Len(PreLines)
    \/ /\ call.op = "remove" /\ call.f.kind = "refuse" /\ IsSome(call.f_arg)

\* C9: get never changes the journal file and never creates a backup, and
\* the file changes in an update or a remove only when flush ran.
C9_GetReadsOnly ==
    /\ call.op = "get" => (file = call.pre.file /\ backup = call.pre.backup
                           /\ ~call.flushed)
    /\ (call.op \in {"update", "remove"} /\ file # call.pre.file) => call.flushed

\* a get on an absent journal file failed, and a get returned a record
C9_Witness ==
    /\ call.op = "get"
    /\ \/ ~call.result.ok /\ call.pre.file = None
       \/ call.result.ok /\ IsSome(call.result.val)

\* C10: add appends in call order: add on an absent or empty file leaves
\* exactly the line to_string(r1) ended by a newline, a following add(r2)
\* leaves exactly two lines, to_string(r1) then to_string(r2), each ended
\* by a newline; every add creates the file if absent and appends
\* to_string(record) and a newline after the existing content.
C10_AddAppends ==
    call.op = "add"
    => LET holds(post, added) ==
               /\ call.result.ok
               /\ file = Some((IF IsSome(call.pre.file) THEN Unwrap(call.pre.file)
                               ELSE <<>>) \o added.text \o added.term)
               /\ call.pre.file \in {None, Some(<<>>)} => post = <<added>>
               /\ \A r1 \in Records :
                      call.pre.file = Some(to_string(r1) \o <<LF>>)
                      => post = <<[text |-> to_string(r1), term |-> <<LF>>], added>>
       IN  holds(PostLines, [text |-> to_string(call.record), term |-> <<LF>>])

\* the second add after an add on an absent file, with a different record
C10_Witness ==
    /\ call.op = "add" /\ Len(PostLines) = 2
    /\ \E r1 \in Records :
           /\ call.pre.file = Some(to_string(r1) \o <<LF>>)
           /\ r1 # call.record

\* the journal file holds neither what it held when flush began nor the
\* rope that flush writes
Torn == file \notin {io.old, Some(io.text)}

\* C11: if writing the buffer to the journal file fails during the flush of
\* an update or a remove, and no other step fails, the journal file is
\* restored from the backup, so that after the call it holds what it held
\* before, and the call returns the write error.
C11_FlushRollback ==
    (io.pc = "returned" /\ io.failed # {} /\ io.failed \subseteq {"write", "drop"})
    => /\ file = call.pre.file
       /\ call.result = ErrOf("write")

\* C12: at every point of a flush, also when the process stops there, a
\* journal file that holds neither the complete old nor the complete new
\* content has a backup holding the complete old content; and when the call
\* has returned, the restore not having failed, the journal file holds the
\* complete old or the complete new content.
C12_FlushNeverTorn ==
    (io.pc # "idle" /\ "restore" \notin io.failed)
    => /\ Torn => backup = io.old
       /\ io.pc = "returned" => ~Torn

\* C13: the backup holds the complete journal file before the journal file
\* is truncated, so whenever a flush in progress, or stopped, has changed the
\* journal file the backup holds the old content; and when flush has
\* returned Ok the backup is deleted.
C13_BackupBeforeTruncate ==
    /\ (io.pc \in {"copy", "open", "write", "drop", "restore", "remove", "crashed"}
        /\ file # io.old)
       => backup = io.old
    /\ (io.pc = "returned" /\ call.result.ok) => backup = None

\* an update or a remove returned Ok(true) after a flush that wrote a rope
\* of several buffers, and no backup is left
C13_Witness ==
    /\ io.pc = "returned" /\ call.result = Ok(TRUE)
    /\ io.failed = {}
    /\ Len(io.text) > 2 * BufCapacity
    /\ file = Some(io.text) /\ file # io.old
    /\ backup = None

\* C14: a get, and an update (whose resolved target is always a record
\* line), leave every line that does not parse as a record where it was
\* among the lines of the journal file, with its text and its terminator
\* unchanged; so does any sequence of them.  A call that leaves the file as
\* it was leaves every line; one that changes it changed a record line.
C14_OpaqueLinesPreserved ==
    (call.op \in {"get", "update"} /\ file # call.pre.file)
    => LET holds(pre, post, recs) ==
               /\ Len(post) = Len(pre)
               /\ \A i \in 0..(Len(pre) - 1) :
                      ~IsSome(RecordAt(recs, i)) => LineAt(post, i) = LineAt(pre, i)
               /\ IsSome(call.cur) /\ IsSome(RecordAt(recs, Unwrap(call.cur)))
       IN  holds(PreLines, PostLines, PreRecords)

\* an update rewrote the record line between a non-empty opaque line and
\* another line
C14_Witness ==
    /\ call.op = "update" /\ call.result = Ok(TRUE)
    /\ call.cur = Some(1) /\ Len(PreLines) = 3
    /\ file # call.pre.file
    /\ LineAt(PreLines, 0).text = OpaqueLine
    /\ LineAt(PostLines, 0).text = OpaqueLine
    /\ LineAt(PostLines, 1).text = to_string(RecB)

\* C15: for every Record value, parsing the text that to_string produces
\* for it yields a record equal to it.
C15_RoundTrip ==
    call.op = "from_str" => call.found = Some(call.record)

\* the records of the repository's test (whole minutes, a start without
\* nanoseconds, a plain note) do come back equal
C15_TestedRecords ==
    (/\ call.op = "from_str"
     /\ call.record.start \in {None, Some(DateTime(1))}
     /\ call.record.activity \in {None, Some(minutes(33))}
     /\ call.record.rest \in {None, Some(minutes(33)), Some(minutes(-5))}
     /\ call.record.note \in {<<>>, <<"a">>})
    => call.found = Some(call.record)

\* the line index forward(n) aims at from the position pos
ForwardTarget(pos, n) == IF IsSome(pos) THEN Unwrap(pos) + n ELSE n - 1

\* C16: a cursor created at position None is, after any sequence of
\* forward, backward, next, get, go_to_start, go_to_end, go_to_record,
\* update and remove calls, at position None or at Some(i) with
\* 0 <= i <= lines_count() of the buffer as it is then.
C16_PositionInRange ==
    IsSome(iter.cur_line_idx)
    => /\ 0 <= Unwrap(iter.cur_line_idx)
       /\ Unwrap(iter.cur_line_idx) <= lines_count(iter)

\* a remove took the last line from under the cursor, which is now at the
\* end position of the shorter buffer
C16_Witness ==
    /\ call.op = "remove"
    /\ IsSome(iter.cur_line_idx)
    /\ iter.cur_line_idx = call.it.cur_line_idx
    /\ Unwrap(iter.cur_line_idx) = lines_count(iter)
    /\ lines_count(call.it) = lines_count(iter) + 1

\* C17: forward(0) leaves the position as it was; forward(n) with n > 0
\* returns with the position Some(min(t, lines_count())), t being i + n from
\* Some(i) and n - 1 from None; the buffer is not modified.
C17_Forward ==
    call.op = "forward"
    => LET holds(it, n, count) ==
               /\ call.result.ok
               /\ iter.rope = it.rope
               /\ n = 0 => iter.cur_line_idx = it.cur_line_idx
               /\ n > 0 => iter.cur_line_idx =
                               Some(IF ForwardTarget(it.cur_line_idx, n) < count
                                    THEN ForwardTarget(it.cur_line_idx, n)
                                    ELSE count)
       IN  holds(call.it, call.n, lines_count(call.it))

\* forward does what C17 says whenever i + n fits usize
C17_ForwardWithoutOverflow ==
    (call.op = "forward" /\ ~forward_panics(call.it, call.n)) => C17_Forward

\* C18: backward(n) leaves the position None at None; from Some(i) it goes
\* to Some(i - n) when n <= i and to None when n > i; backward(0) leaves the
\* position as it was; the buffer is not modified.
C18_Backward ==
    call.op = "backward"
    => LET holds(it, n) ==
               /\ call.result.ok
               /\ iter.rope = it.rope
               /\ it.cur_line_idx = None => iter.cur_line_idx = None
               /\ IsSome(it.cur_line_idx)
                  => iter.cur_line_idx =
                         IF n <= Unwrap(it.cur_line_idx)
                         THEN Some(Unwrap(it.cur_line_idx) - n)
                         ELSE None
               /\ n = 0 => iter.cur_line_idx = it.cur_line_idx
       IN  holds(call.it, call.n)

\* backward(2) went from the third line to the first
C18_Witness ==
    /\ call.op = "backward" /\ call.n = 2
    /\ call.it.cur_line_idx = Some(2)
    /\ iter.cur_line_idx = Some(0)
    /\ lines_count(iter) = 3

\* C19: a forward(n) or backward(n) whose count would take the cursor out
\* of range does not fail and leaves the position at the boundary on that
\* side: the end position lines_count() for forward, before the first line
\* for backward; a get() right after it returns None.
C19_Saturating ==
    LET holds(it, n, count) ==
            /\ (call.op = "forward" /\ n > 0
                /\ ForwardTarget(it.cur_line_idx, n) > count)
               => /\ call.result.ok
                  /\ iter.cur_line_idx = Some(count)
                  /\ iter_get(iter) = None
            /\ (call.op = "backward" /\ IsSome(it.cur_line_idx)
                /\ n > Unwrap(it.cur_line_idx))
               => /\ call.result.ok
                  /\ iter.cur_line_idx = None
                  /\ iter_get(iter) = None
    IN  call.op \in {"forward", "backward"}
        => holds(call.it, call.n, lines_count(call.it))

\* C20: get() returns None exactly when the position is None or at least
\* lines_count(); otherwise it returns the Record item parsed from the line
\* at the position or, when the line does not parse, the opaque item holding
\* the line's text without its newline; it changes neither the position nor
\* the buffer, and a get() right after a get() returns the same.
C20_Get ==
    call.op = "get"
    => LET opaque(item, text) ==
               /\ item.kind = "SomeLine"
               /\ \E term \in {<<>>, <<LF>>} : item.text \o term = text
               /\ item.text = <<>> \/ item.text[Len(item.text)] # LF
           item_of(item, text, rec) ==
               IF IsSome(rec) THEN item = ItemRecord(Unwrap(rec))
               ELSE opaque(item, text)
           holds(it, ret) ==
               /\ call.result.ok
               /\ iter = it
               /\ ret = None <=> (\/ it.cur_line_idx = None
                                  \/ Unwrap(it.cur_line_idx) >= lines_count(it))
               /\ IsSome(ret)
                  => item_of(Unwrap(ret), line(it.rope, Unwrap(it.cur_line_idx)),
                             from_str(line(it.rope, Unwrap(it.cur_line_idx))))
               /\ IsSome(call.last_get) => call.last_get = Some(call.result)
       IN  holds(call.it, call.result.val)

\* the second of two consecutive gets on a terminated opaque line
C20_Witness ==
    /\ call.op = "get" /\ IsSome(call.last_get)
    /\ call.result.val = Some(SomeLine(OpaqueLine))
    /\ line(iter.rope, Unwrap(iter.cur_line_idx)) = OpaqueLine \o <<LF>>

\* the same content with, for without, the final newline
Twin(text) ==
    IF Len(text) > 0 /\ text[Len(text)] = LF
    THEN SubSeq(text, 1, Len(text) - 1)
    ELSE text \o <<LF>>

\* the content has a last line that is not empty, ended by a newline or by
\* nothing
HasLastLine(text) ==
    LET body(t) == Len(t) > 0 /\ t[Len(t)] \notin {LF, CR}
    IN  body(IF Len(text) > 0 /\ text[Len(text)] = LF THEN Twin(text) ELSE text)

\* the items of j calls of next from the cursor it
RECURSIVE Walk(_, _)
Walk(it, j) ==
    IF j = 0 THEN <<>>
    ELSE <<next(it).item>> \o Walk(next(it).iter, j - 1)

\* C21: a buffer whose last line is ended by a newline and the same content
\* without that newline have the same lines_count() and give the same items
\* from repeated next(); the empty buffer has 0 lines, and a buffer holding
\* only a newline has exactly 1 line, opaque and empty.
C21_FinalNewline ==
    LET holds(text, twin) ==
            /\ HasLastLine(text)
               => /\ IsSome(call.count) => call.count = Some(lines_count(twin))
                  /\ call.items = Walk(twin, Len(call.items))
            /\ (text = <<>> /\ IsSome(call.count)) => call.count = Some(0)
            /\ (text = <<LF>> /\ IsSome(call.count)) => call.count = Some(1)
            /\ (text = <<LF>> /\ Len(call.items) > 0)
               => call.items[1] = Some(SomeLine(<<>>))
    IN  holds(iter.rope.text, Iter(Rope(Twin(iter.rope.text)), None))

\* C21 holds of every buffer that one chunk of the rope holds
C21_WithinOneChunk ==
    Len(iter.rope.text) < ChunkChars => C21_FinalNewline

\* a line without its line break
RECURSIVE StripBreak(_)
StripBreak(l) ==
    IF Len(l) > 0 /\ l[Len(l)] \in {LF, CR}
    THEN StripBreak(SubSeq(l, 1, Len(l) - 1))
    ELSE l

\* what get() returns on line i of the buffer of it, None from the end on
ItemAt(it, i) == iter_get(Iter(it.rope, Some(i)))

\* C22: the cursor's update(item) at position None returns None and leaves
\* the buffer as it was; at Some(i), i < lines_count(), it replaces line i
\* by the item's text, leaves every other line and the number of lines as
\* they were and the position at i, so that get() returns the item and
\* next() the line that followed, and it returns the offset at which line i
\* starts.
C22_IterUpdate ==
    call.op = "update"
    => LET at(it, item, i, count) ==
               i < count
               => /\ lines_count(iter) = count
                  /\ StripBreak(line(iter.rope, i)) = item_to_string(item)
                  /\ \A j \in 0..(count - 1) :
                         j # i => line(iter.rope, j) = line(it.rope, j)
                  /\ iter.cur_line_idx = Some(i)
                  /\ iter_get(iter) = Some(item)
                  /\ next(iter).item = ItemAt(it, i + 1)
                  /\ call.result = Ok(Some(line_to_char(it.rope, i)))
           holds(it, item) ==
               IF IsSome(it.cur_line_idx)
               THEN at(it, item, Unwrap(it.cur_line_idx), lines_count(it))
               ELSE call.result = Ok(None) /\ iter = it
       IN  holds(call.it, Unwrap(call.item))

\* update does what C22 says with every item that get() reads back from
\* the item's text
C22_ItemsThatParseBack ==
    (call.op = "update" /\ call.item # Some(ItemRecord(RecSeconds)))
    => C22_IterUpdate

\* C23: the cursor's remove() at position None returns None and leaves the
\* buffer as it was; at Some(i), i < lines_count(), it deletes line i with
\* its terminator, the other lines keep their order, the position stays i,
\* so that get() yields the line that was at i + 1 (None after the last
\* line) and next() the one that was at i + 2.
C23_IterRemove ==
    call.op = "remove"
    => LET at(it, i, count) ==
               i < count
               => /\ lines_count(iter) = count - 1
                  /\ \A j \in 0..(count - 2) :
                         line(iter.rope, j) = line(it.rope, IF j < i THEN j ELSE j + 1)
                  /\ iter.cur_line_idx = Some(i)
                  /\ iter_get(iter) = ItemAt(it, i + 1)
                  /\ next(iter).item = ItemAt(it, i + 2)
                  /\ call.result = Ok(Some(line_to_char(it.rope, i)))
           holds(it) ==
               IF IsSome(it.cur_line_idx)
               THEN at(it, Unwrap(it.cur_line_idx), lines_count(it))
               ELSE call.result = Ok(None) /\ iter = it
       IN  holds(call.it)

\* a remove deleted the middle line of three; get() is on the former third
C23_Witness ==
    /\ call.op = "remove"
    /\ call.it.cur_line_idx = Some(1) /\ lines_count(call.it) = 3
    /\ lines_count(iter) = 2
    /\ IsSome(iter_get(iter)) /\ iter_get(iter) = ItemAt(call.it, 2)
    /\ ItemAt(call.it, 1) # ItemAt(call.it, 2)

\* C24: with offset -1 the resolver returns, from a cursor already moved
\* into the buffer, the record it returns from a fresh cursor (position
\* None) over the same buffer.
C24_StartPositionIndependent ==
    (call.op = "go_to_record" /\ call.offset = Some(-1))
    => call.result =
           Ok(go_to_record(Iter(call.it.rope, None), call.query, call.offset).record)

\* from a fresh cursor the resolver returns with offset -1 what the store's
\* get returns
C24_FromFreshCursor ==
    (call.op = "go_to_record" /\ call.offset = Some(-1)
     /\ call.it.cur_line_idx = None)
    => C24_StartPositionIndependent

\* C30: the cursor's update(item) at the position lines_count() appends the
\* item as a new last line and leaves every line there was unchanged,
\* whether or not the buffer ends with a line terminator.
C30_UpdateAtEnd ==
    (call.op = "update" /\ call.it.cur_line_idx = Some(lines_count(call.it)))
    => LET holds(it, item, count) ==
               /\ lines_count(iter) = count + 1
               /\ \A j \in 0..(count - 1) :
                      StripBreak(line(iter.rope, j)) = StripBreak(line(it.rope, j))
               /\ StripBreak(line(iter.rope, count)) = item_to_string(item)
       IN  holds(call.it, Unwrap(call.item), lines_count(call.it))

\* update at the end position appends a line to every buffer that is empty
\* or ends with a newline
C30_AfterFinalNewline ==
    (call.op = "update"
     /\ (call.it.rope.text = <<>>
         \/ call.it.rope.text[Len(call.it.rope.text)] = LF))
    => C30_UpdateAtEnd

(***************************************************************************)
(* Journals that do not load.                                              *)
(***************************************************************************)
\* the journal file is absent or holds bytes that are not text
Unloadable(f) ==
    IF IsSome(f) THEN \E k \in 1..Len(Unwrap(f)) : Unwrap(f)[k] = InvalidByte ELSE TRUE

\* C25: when the journal file cannot be opened or read, get, update and
\* remove return an error, do not call the closure and leave the journal file
\* and the backup as they were; only add creates a missing journal file.
C25_LoadFailures ==
    /\ (call.op \in {"get", "update", "remove"} /\ Unloadable(call.pre.file))
           => /\ ~call.result.ok
              /\ call.f_arg = None
              /\ ~call.flushed
              /\ file = call.pre.file
              /\ backup = call.pre.backup
    /\ (call.op # "none" /\ call.pre.file = None /\ file # None) => call.op = "add"

\* an update of a journal file holding an invalid byte has failed
C25_Witness ==
    /\ call.op = "update"
    /\ IsSome(call.pre.file)
    /\ Unloadable(call.pre.file)
    /\ ~call.result.ok
    /\ file = call.pre.file

(***************************************************************************)
(* Negative offsets and the first-match flag.                              *)
(***************************************************************************)
\* a record line before line c: it failed the query when c is the anchor
RecordBefore(recs, c) == RecordLines(recs) \cap 0..(c - 1) # {}

\* the anchor of the call
MatchLine == Unwrap(Anchor(PreRecords, call.query))

\* C27: when a record before the match on line c failed the query,
\* get(query, -k) returns the record on line c-k if k <= c and that line is a
\* record, and None if k > c or line c-k is opaque: it is measured from the
\* match, never from the end of the journal.
C27_NegativeOffsetFromMatch ==
    (/\ call.op = "get" /\ call.result.ok /\ Off < 0
     /\ IsSome(Anchor(PreRecords, call.query)))
    => (RecordBefore(PreRecords, MatchLine)
        => call.result.val = IF -Off <= MatchLine
                             THEN RecordAt(PreRecords, MatchLine + Off)
                             ELSE None)

\* get(query, -1) with the match on line 1 of three lines returned the record
\* of line 0, which is not the record of the last line
C27_Witness ==
    /\ call.op = "get" /\ call.result.ok /\ Off = -1
    /\ Len(PreRecords) = 3
    /\ Anchor(PreRecords, call.query) = Some(1)
    /\ IsSome(PreRecords[1])
    /\ call.result.val = PreRecords[1]
    /\ PreRecords[3] # PreRecords[1]

\* C28: the first-match flag is true exactly when no record line before the
\* match failed the query; opaque lines before the match do not clear it, so
\* a negative offset is then counted from the end of the journal; the count
\* is in physical lines, opaque lines included.
C28_FirstMatchFlag ==
    (IsQuery /\ Off < 0 /\ IsSome(Anchor(PreRecords, call.query)))
    => LET base == IF RecordBefore(PreRecords, MatchLine)
                   THEN MatchLine
                   ELSE Len(PreLines)
       IN  /\ call.cur = IF base + Off >= 0 THEN Some(base + Off) ELSE None
           /\ call.found = RecordAt(PreRecords, base + Off)

\* the match on line 1 follows an opaque line, and offset -1 led to the last
\* of three lines, not to the opaque line before the match
C28_Witness ==
    /\ IsQuery /\ Off = -1
    /\ Len(PreLines) = 3
    /\ Anchor(PreRecords, call.query) = Some(1)
    /\ ~IsSome(PreRecords[1])
    /\ call.cur = Some(2)
    /\ IsSome(call.found)

(***************************************************************************)
(* update and remove against get.                                          *)
(***************************************************************************)
\* C29: when get(query, offset) returns a record, which is the record on the
\* target line t, update(query, offset, f) and remove(query, offset, f) pass
\* that record to f, update replaces line t and remove deletes line t, the
\* other lines staying as they were, whatever the offset and the anchor.
C29_ActOnTarget ==
    (call.op \in {"update", "remove"} /\ call.result.ok)
    => LET holds(got, pre, post, t) ==
               IsSome(got)
               => /\ IsSome(t)
                  /\ RecordAt(PreRecords, Unwrap(t)) = got
                  /\ call.f_arg = got
                  /\ call.f.kind = "replace"
                         => /\ Len(post) = Len(pre)
                            /\ LineAt(post, Unwrap(t)).text = to_string(call.f.record)
                            /\ \A i \in 0..(Len(pre) - 1) :
                                   i # Unwrap(t) => LineAt(post, i) = LineAt(pre, i)
                  /\ call.f.kind = "confirm"
                         => post = SubSeq(pre, 1, Unwrap(t))
                                       \o SubSeq(pre, Unwrap(t) + 2, Len(pre))
       IN  holds(get(call.pre, call.query, call.offset).result.val,
                 PreLines, PostLines, Target(PreRecords, call.query, Off))

\* a remove with offset -1 whose match is the first of three lines was
\* counted from the end and deleted the last line, which differs from the
\* match
C29_Witness ==
    /\ call.op = "remove" /\ call.result = Ok(TRUE) /\ Off = -1
    /\ Len(PreLines) = 3
    /\ Anchor(PreRecords, call.query) = Some(0)
    /\ call.f_arg = PreRecords[3]
    /\ PreRecords[3] # PreRecords[1]
    /\ PostLines = SubSeq(PreLines, 1, 2)

(***************************************************************************)
(* Two callers: the serial orders of their calls.                          *)
(***************************************************************************)
\* the directory after the call c, run alone on the directory fs
Apply(c, fs) ==
    CASE c.op = "add"    -> add(fs, c.record).fs
      [] c.op = "update" -> update(fs, c.query, c.offset, c.f).fs
      [] c.op = "remove" -> remove(fs, c.query, c.offset, c.f).fs

\* the journal file after p's call and then q's
Serial(p, q) ==
    Apply(call.procs[q], Apply(call.procs[p], [file |-> call.start, backup |-> None])).file

BothDone == \A p \in Procs : call.procs[p].pc = "done"

\* both calls are over and the file is what neither serial order leaves
NonSerial == BothDone /\ file \notin {Serial(1, 2), Serial(2, 1)}

\* C26: there is an interleaving of two mutating calls on one journal file
\* after which the file's content is the result of neither serial order of
\* the two; it takes calls that overlap, for two calls of which one is over
\* before the other begins leave a serial result.
C26_RaceNeedsOverlap == NonSerial => call.overlapped

\* an update loaded the journal, an add appended its record, the update
\* wrote its rope: both calls returned Ok, the added record is lost and the
\* file is the result of neither serial order
C26_Witness ==
    /\ NonSerial
    /\ call.procs[1].op = "update" /\ call.procs[1].result = Ok(TRUE)
    /\ call.procs[2].op = "add" /\ call.procs[2].result.ok
    /\ Len(JournalLines(file)) = Len(JournalLines(call.start))

(***************************************************************************)
(* The flush: a failed copy, and what Ok means.                            *)
(***************************************************************************)
\* C31: when the copy of the journal file to the backup fails, flush returns
\* the error before it opens the journal file for truncation: the call
\* returns an error and the journal file holds what it held before.
C31_CopyFailure ==
    "copy" \in io.failed
    => /\ io.pc = "returned"
       /\ ~call.result.ok
       /\ file = io.old

\* an update or a remove returned the error of a copy that left half a
\* backup, with the journal file as it was
C31_Witness ==
    /\ io.pc = "returned"
    /\ io.failed = {"copy"}
    /\ call.result = ErrOf("copy")
    /\ IsSome(backup) /\ backup # io.old
    /\ file = io.old

\* C34: whenever flush returns Ok, the journal file holds the serialized
\* rope: no failed write to the file, the write of the buffered bytes at the
\* drop of the writer included, is reported as success.
C34_OkMeansWritten ==
    (io.pc = "returned" /\ call.result.ok) => file = Some(io.text)

(***************************************************************************)
(* LinesWalker, stated on the lines of the file.                           *)
(***************************************************************************)
\* the lines of a file: the pieces between the "\n", each without the "\r"
\* before its "\n"; a final "\n" begins no further line
RECURSIVE FileLines(_, _, _)
FileLines(bytes, i, start) ==
    IF i > Len(bytes)
    THEN IF start > Len(bytes) THEN <<>> ELSE <<SubSeq(bytes, start, Len(bytes))>>
    ELSE IF bytes[i] = LF
    THEN <<IF i > start /\ bytes[i - 1] = CR
           THEN SubSeq(bytes, start, i - 2)
           ELSE SubSeq(bytes, start, i - 1)>> \o FileLines(bytes, i + 1, i + 1)
    ELSE FileLines(bytes, i + 1, start)

WalkerLines == FileLines(iter.bytes, 1, 1)

\* the number of lines before a position
LinesBefore(pos) == Len(FileLines(SubSeq(iter.bytes, 1, pos), 1, 1))

\* a rev_next right after a next that returned a line returns that line and
\* leaves the reader where the next began
RevNextUndoesNext ==
    (call.op = "rev_next" /\ call.last.op = "next" /\ IsSome(call.last.result.val))
    => /\ call.result = call.last.result
       /\ iter.pos = call.last.pos

\* the rev_next calls after a go_to_end return the lines from the last to
\* the first and then None
RevNextFromEnd ==
    IsSome(call.rev)
    => LET holds(items, lines) ==
               \A j \in 1..Len(items) :
                   items[j] = IF j <= Len(lines)
                              THEN Some(lines[Len(lines) + 1 - j])
                              ELSE None
       IN  holds(Unwrap(call.rev), WalkerLines)

\* rev_skip_next(k) returns the line k + 1 lines before the position it
\* began at, None when fewer lines precede it
RevSkipNext ==
    call.op = "rev_skip_next"
    => LET holds(before, lines) ==
               call.result = Ok(IF before >= call.skipped + 1
                                THEN Some(lines[before - call.skipped])
                                ELSE None)
       IN  holds(LinesBefore(call.pos), WalkerLines)

\* C33: a rev_next right after a next that returned line L returns L and
\* puts the reader back at the start of L; go_to_end followed by repeated
\* rev_next yields the lines in reverse file order, a final line terminator
\* adding none, and then None; rev_skip_next(k) returns the line k + 1
\* lines before the position, or None when fewer than k + 1 lines precede it.
C33_LinesWalker == RevNextUndoesNext /\ RevNextFromEnd /\ RevSkipNext

\* C33 for the counts k with k + 1 within usize
C33_SkipWithoutOverflow ==
    call.skipped < UsizeMax => C33_LinesWalker

(***************************************************************************)
(* The two revisions of get.                                               *)
(***************************************************************************)
RevisionRecords == LineRecords(JournalLines(file))

\* the line of the first record that satisfies the query
RevisionAnchor == Anchor(RevisionRecords, call.query)

RevisionOff == IF IsSome(call.offset) THEN Unwrap(call.offset) ELSE 0

\* the journal lies in one chunk of the rope
OneChunk == Len(Unwrap(file)) <= ChunkChars

\* every line before the match is a record, and for a positive offset so is
\* every line between the match and the target
RecordsOnTheWay ==
    IsSome(RevisionAnchor)
    => LET all(c, last) ==
               \A i \in 0..last :
                   (i < c \/ (c < i /\ i < c + RevisionOff)) => IsSome(RevisionRecords[i + 1])
       IN  all(Unwrap(RevisionAnchor), Len(RevisionRecords) - 1)

PositionOf(it) == IF IsSome(it.cur_line_idx) THEN Unwrap(it.cur_line_idx) ELSE -1

\* C35: next() advances the position by one line and yields that line's
\* item as long as a line follows; from there on it leaves the position at
\* lines_count() and returns None.  So count + 1 calls of next() on a fresh
\* cursor yield count items and then None, and the resolver's walk ends;
\* after go_to_start() the walk yields what it yields on a fresh cursor.
C35_WalkTerminates ==
    /\ (call.op = "next" /\ call.result.ok)
       => LET holds(before, count) ==
                  IF PositionOf(before) + 1 < count
                  THEN /\ iter.cur_line_idx = Some(PositionOf(before) + 1)
                       /\ call.result.val = ItemAt(before, PositionOf(before) + 1)
                       /\ IsSome(call.result.val)
                  ELSE /\ iter.cur_line_idx = Some(count)
                       /\ call.result.val = None
          IN  holds(call.it, lines_count(call.it))
    /\ call.op \in {"next", "go_to_start"}
       => LET ends(walk, count) ==
                  /\ \A j \in 1..count : IsSome(walk[j])
                  /\ walk[count + 1] = None
                  /\ walk[count + 2] = None
          IN  ends(Walk(Iter(iter.rope, None), lines_count(iter) + 2), lines_count(iter))
    /\ call.op = "go_to_start"
       => Walk(iter, lines_count(iter) + 1)
              = Walk(Iter(iter.rope, None), lines_count(iter) + 1)

\* a next() at the end of a buffer of several lines returned None and left
\* the position at lines_count()
C35_Witness ==
    /\ call.op = "next" /\ call.result = Ok(None)
    /\ lines_count(iter) >= 2
    /\ call.it.cur_line_idx = Some(lines_count(iter))
    /\ iter.cur_line_idx = Some(lines_count(iter))

(***************************************************************************)
(* forward and backward undo each other.                                   *)
(***************************************************************************)
\* C36: after a forward(n), n > 0, from position p whose target lies within
\* lines_count(), so that nothing is clamped, backward(n) leads back to p,
\* also from p = None; and after a backward(n) from Some(i) with n <= i,
\* forward(n) leads back to Some(i).
C36_ForwardBackward ==
    /\ (/\ call.op = "forward" /\ call.result.ok /\ call.n > 0
        /\ PositionOf(call.it) + call.n <= lines_count(call.it))
       => /\ iter.cur_line_idx = Some(PositionOf(call.it) + call.n)
          /\ backward(iter, call.n).cur_line_idx = call.it.cur_line_idx
    /\ (/\ call.op = "backward" /\ IsSome(call.it.cur_line_idx)
        /\ call.n <= PositionOf(call.it))
       => /\ iter.cur_line_idx = Some(PositionOf(call.it) - call.n)
          /\ forward(iter, call.n).cur_line_idx = call.it.cur_line_idx

\* forward(2) from None reached line 1 of a buffer of several lines, from
\* where backward(2) leads to None
C36_Witness ==
    /\ call.op = "forward" /\ call.n = 2
    /\ call.it.cur_line_idx = None
    /\ lines_count(iter) >= 2
    /\ iter.cur_line_idx = Some(1)
    /\ backward(iter, 2).cur_line_idx = None

(***************************************************************************)
(* The last line's terminator.                                             *)
(***************************************************************************)
\* the journal file is absent, empty or ends with a line terminator
Terminated(f) ==
    IF IsSome(f) /\ Len(Unwrap(f)) > 0
    THEN Unwrap(f)[Len(Unwrap(f))] \in {LF, CR}
    ELSE TRUE

\* C37: a journal file that is absent, empty or ends with a line terminator
\* is empty or ends with a line terminator after every add, update and
\* remove, hence after any sequence of them; and an add to such a file puts
\* its record on a line of its own, leaving the lines before as they were.
C37_TerminatorKept ==
    /\ [][Terminated(file) => Terminated(file')]_vars
    /\ []((call.op = "add" /\ Terminated(call.pre.file))
          => /\ Len(PostLines) = Len(PreLines) + 1
             /\ SubSeq(PostLines, 1, Len(PreLines)) = PreLines
             /\ PostLines[Len(PostLines)].text = to_string(call.record))

\* a remove deleted the last of three lines of a journal that ended with a
\* newline, and the journal still ends with one
C37_Witness ==
    /\ call.op = "remove" /\ call.result = Ok(TRUE)
    /\ Terminated(call.pre.file)
    /\ Len(PreLines) = 3 /\ call.cur = Some(2)
    /\ Len(PostLines) = 2
    /\ Unwrap(file)[Len(Unwrap(file))] = LF

\* C38: for any content of the journal file, a last line without terminator
\* included, add(r) adds exactly one line, leaves the text of every line
\* there was unchanged and makes the text of r the last line.
C38_AddOneLine ==
    (call.op = "add" /\ call.result.ok /\ ~Unloadable(file))
    => /\ Len(PostLines) = Len(PreLines) + 1
       /\ \A i \in 1..Len(PreLines) : PostLines[i].text = PreLines[i].text
       /\ PostLines[Len(PostLines)].text = to_string(call.record)

(***************************************************************************)
(* Offsets at the ends of the i32 range.                                   *)
(***************************************************************************)
\* C39: for every offset of the i32 range, the least one included, the
\* resolver computes the number of lines to go back without overflow, so the
\* call returns, and it returns None when the magnitude of a negative offset
\* exceeds the lines before the anchor, or before the end when the anchor is
\* the journal's first record.
C39_EveryOffset ==
    call.op = "get"
    => /\ call.result.ok
       /\ (Off < 0 /\ IsSome(Anchor(PreRecords, call.query)))
          => LET base == IF RecordBefore(PreRecords, MatchLine)
                         THEN MatchLine
                         ELSE Len(PreLines)
             IN  -Off > base => call.result.val = None

\* C39 for the offsets above the least i32
C39_AboveMin ==
    Off > I32Min => C39_EveryOffset

(***************************************************************************)
(* After an interrupted flush.                                             *)
(***************************************************************************)
\* C40: after a flush was interrupted past the truncation, the backup
\* holding the complete old content and the journal file being torn, the
\* calls that follow leave the backup holding the old content as long as
\* the journal file differs from it.
C40_BackupSurvives ==
    (io.pc = "crashed" /\ file # io.old) => backup = io.old


====
